---- MODULE Spec2Model ----
(***************************************************************************)
(* FuzzyLibrary (fzzlib): a Mamdani fuzzy-inference engine with fixed-size *)
(* tables.  The model follows src/fzzlib.c, lines 1-926 (the static-array  *)
(* library that main.c links against).                                     *)
(*                                                                         *)
(* Numbers.  Coordinates (left, top, right, inputs, sample points) are     *)
(* integers counting hundredths, so COG_STEP (0.02) is 2.  Membership      *)
(* degrees, firing strengths and outputs are exact rationals <<n, d>> in   *)
(* lowest terms with d > 0; an output is also in hundredths.  The results  *)
(* of a C division by 0.0 are NaN = <<0, 0>>, +Inf = <<1, 0>> and          *)
(* -Inf = <<-1, 0>>.                                                       *)
(*                                                                         *)
(* Text.  Names and rule texts are strings, read character by character    *)
(* with SubSeq, as the C code reads its char arrays.                       *)
(*                                                                         *)
(* status is "ok" while the process runs, "aborted" once an assert has     *)
(* failed (the process is gone), and "ub" once the code has written        *)
(* outside an array: the state then holds one of the outcomes a build may  *)
(* produce.                                                                *)
(***************************************************************************)
EXTENDS Integers, Sequences, FiniteSets, TLC

VARIABLES fzzSystem, fzfOut, infOut, status, lastCall, ruleLog

vars == <<fzzSystem, fzfOut, infOut, status, lastCall, ruleLog>>

-----------------------------------------------------------------------------
(* Defines, src/fzzlib.c:43-85 *)

NAME_LENGTH == 16
RULE_LENGTH == 128
MAX_RULES == 256
MAX_INPUTS == 4
MAX_OUTPUTS == 2
MAX_FSETS == 16
MAX_INFRES == 64
WBUF_LENGTH == 16
COG_STEP == 2

-----------------------------------------------------------------------------
(* Exact arithmetic standing for the C doubles *)

Abs(n) == IF n < 0 THEN -n ELSE n

RECURSIVE GCD(_, _)
GCD(a, b) == IF b = 0 THEN a ELSE GCD(b, a % b)

\* the rational n/d (d # 0) in lowest terms with a positive denominator
Rat(n, d) ==
    LET g == GCD(Abs(n), Abs(d))
        s == IF d < 0 THEN -1 ELSE 1
    IN  <<(s * n) \div g, (s * d) \div g>>

RatInt(n) == <<n, 1>>
RatAdd(a, b) == Rat(a[1] * b[2] + b[1] * a[2], a[2] * b[2])
RatMul(a, b) == Rat(a[1] * b[1], a[2] * b[2])
RatLess(a, b) == a[1] * b[2] < b[1] * a[2]
RatLeq(a, b) == a[1] * b[2] <= b[1] * a[2]
Zero == <<0, 1>>
One == <<1, 1>>

\* numerator / denominator of two doubles, src/fzzlib.c:661
NaN == <<0, 0>>

FDiv(num, den) ==
    IF den[1] # 0 THEN Rat(num[1] * den[2], num[2] * den[1])
    ELSE IF num[1] = 0 THEN NaN
    ELSE IF num[1] > 0 THEN <<1, 0>> ELSE <<-1, 0>>

-----------------------------------------------------------------------------
(* Data types, src/fzzlib.c:100-173 *)

TFuzzySet0 == [left |-> 0, top |-> 0, right |-> 0, name |-> ""]

TFcnsSet0 == [fSet |-> [j \in 0 .. MAX_FSETS - 1 |-> TFuzzySet0], length |-> 0, name |-> ""]

\* the zero-initialised global before any call
TFzzSystem0 ==
    [inLen |-> 0, outLen |-> 0,
     inSet |-> [i \in 0 .. MAX_INPUTS - 1 |-> TFcnsSet0],
     outSet |-> [i \in 0 .. MAX_OUTPUTS - 1 |-> TFcnsSet0],
     input |-> [i \in 0 .. MAX_INPUTS - 1 |-> 0],
     output |-> [i \in 0 .. MAX_OUTPUTS - 1 |-> Zero],
     ruLen |-> 0, rule |-> <<>>]

fzfOut0 == [i \in 0 .. MAX_INPUTS - 1 |-> <<>>]

infOut0 == [i \in 0 .. MAX_OUTPUTS - 1 |-> <<>>]

\* strncpy(dst, src, n) followed by a read of dst as a string
strncpy(src, n) == IF Len(src) < n THEN src ELSE SubSeq(src, 1, n)

-----------------------------------------------------------------------------
(* Set-up functions.  Each returns [st, sys]: the status after the call    *)
(* and the new fzzSystem.                                                  *)

\* fzz_init without lines 222-223
init_keepsRules(sys, inputs, outputs) ==
    IF ~(inputs <= MAX_INPUTS) \/ ~(outputs <= MAX_OUTPUTS)
    THEN [st |-> "aborted", sys |-> sys]
    ELSE [st |-> "ok",
          sys |-> [TFzzSystem0 EXCEPT !.inLen = inputs, !.outLen = outputs,
                                      !.ruLen = sys.ruLen, !.rule = sys.rule]]

fzz_init(sys, inputs, outputs) ==
    IF ~(inputs <= MAX_INPUTS) \/ ~(outputs <= MAX_OUTPUTS)
    THEN [st |-> "aborted", sys |-> sys]
    ELSE [st |-> "ok",
          sys |-> [TFzzSystem0 EXCEPT !.inLen = inputs, !.outLen = outputs]]

fzz_initInputFcns(sys, index, length, name) ==
    IF ~(index < sys.inLen) \/ ~(length <= MAX_FSETS)
    THEN [st |-> "aborted", sys |-> sys]
    ELSE IF index < 0
    THEN [st |-> "ub", sys |-> sys]
    ELSE [st |-> "ok",
          sys |-> [sys EXCEPT !.inSet[index].length = length,
                              !.inSet[index].name = strncpy(name, NAME_LENGTH)]]

fzz_initOutputFcns(sys, index, length, name) ==
    IF ~(index < sys.outLen) \/ ~(length <= MAX_FSETS)
    THEN [st |-> "aborted", sys |-> sys]
    ELSE IF index < 0
    THEN [st |-> "ub", sys |-> sys]
    ELSE [st |-> "ok",
          sys |-> [sys EXCEPT !.outSet[index].length = length,
                              !.outSet[index].name = strncpy(name, NAME_LENGTH)]]

fzz_setInputFcn(sys, index, fcSet, left, top, right, name) ==
    IF ~(fcSet < sys.inLen)
    THEN [st |-> "aborted", sys |-> sys]
    ELSE IF fcSet < 0
    THEN [st |-> "ub", sys |-> sys]
    ELSE IF ~(index < sys.inSet[fcSet].length)
    THEN [st |-> "aborted", sys |-> sys]
    ELSE IF index < 0
    THEN [st |-> "ub", sys |-> sys]
    ELSE [st |-> "ok",
          sys |-> [sys EXCEPT !.inSet[fcSet].fSet[index] =
                       [left |-> left, top |-> top, right |-> right,
                        name |-> strncpy(name, NAME_LENGTH)]]]

fzz_setOutputFcn(sys, index, fcSet, left, top, right, name) ==
    IF ~(fcSet < sys.outLen)
    THEN [st |-> "aborted", sys |-> sys]
    ELSE IF fcSet < 0
    THEN [st |-> "ub", sys |-> sys]
    ELSE IF ~(index < sys.outSet[fcSet].length)
    THEN [st |-> "aborted", sys |-> sys]
    ELSE IF index < 0
    THEN [st |-> "ub", sys |-> sys]
    ELSE [st |-> "ok",
          sys |-> [sys EXCEPT !.outSet[fcSet].fSet[index] =
                       [left |-> left, top |-> top, right |-> right,
                        name |-> strncpy(name, NAME_LENGTH)]]]

fzz_addRule(sys, rule) ==
    IF ~(sys.ruLen < MAX_RULES)
    THEN [st |-> "aborted", sys |-> sys]
    ELSE [st |-> "ok",
          sys |-> [sys EXCEPT !.rule = Append(sys.rule, strncpy(rule, RULE_LENGTH)),
                              !.ruLen = sys.ruLen + 1]]

\* fzz_setInput that also clears the stored outputs
setInput_clearsOutput(sys, index, value) ==
    IF ~(index < sys.inLen)
    THEN [st |-> "aborted", sys |-> sys]
    ELSE IF index < 0
    THEN [st |-> "ub", sys |-> sys]
    ELSE [st |-> "ok",
          sys |-> [sys EXCEPT !.input[index] = value,
                              !.output = [i \in 0 .. MAX_OUTPUTS - 1 |-> Zero]]]

fzz_setInput(sys, index, value) ==
    IF ~(index < sys.inLen)
    THEN [st |-> "aborted", sys |-> sys]
    ELSE IF index < 0
    THEN [st |-> "ub", sys |-> sys]
    ELSE [st |-> "ok", sys |-> [sys EXCEPT !.input[index] = value]]

\* returns [st, ret]
fzz_getOutput(sys, index) ==
    IF ~(index < sys.outLen)
    THEN [st |-> "aborted", ret |-> <<>>]
    ELSE IF index < 0
    THEN [st |-> "ub", ret |-> <<>>]
    ELSE [st |-> "ok", ret |-> sys.output[index]]

-----------------------------------------------------------------------------
(* Name look-up, src/fzzlib.c:288-350 *)

RECURSIVE FirstNamed(_, _, _, _)
\* the first i in from .. len-1 with names[i] = name, or -1
FirstNamed(names, len, name, from) ==
    IF from >= len THEN -1
    ELSE IF names[from] = name THEN from
    ELSE FirstNamed(names, len, name, from + 1)

fzz_inputIndex(sys, name) ==
    FirstNamed([i \in 0 .. MAX_INPUTS - 1 |-> sys.inSet[i].name], sys.inLen, name, 0)

fzz_outputIndex(sys, name) ==
    FirstNamed([i \in 0 .. MAX_OUTPUTS - 1 |-> sys.outSet[i].name], sys.outLen, name, 0)

\* fzz_inputFSetIndex answering with the first fuzzy set whatever the name
inputFSetIndex_first(sys, index, name) ==
    IF sys.inSet[index].length > 0 THEN 0 ELSE -1

fzz_inputFSetIndex(sys, index, name) ==
    FirstNamed([i \in 0 .. MAX_FSETS - 1 |-> sys.inSet[index].fSet[i].name],
               sys.inSet[index].length, name, 0)

\* fzz_outputFSetIndex answering with the first fuzzy set whatever the name
outputFSetIndex_first(sys, index, name) ==
    IF sys.outSet[index].length > 0 THEN 0 ELSE -1

fzz_outputFSetIndex(sys, index, name) ==
    FirstNamed([i \in 0 .. MAX_FSETS - 1 |-> sys.outSet[index].fSet[i].name],
               sys.outSet[index].length, name, 0)

-----------------------------------------------------------------------------
(* Fuzzification, src/fzzlib.c:358-393 *)

\* the tests before the division, src/fzzlib.c:364-365 and 597-598: the
\* fuzzy set f is passed over unless x is strictly inside (left, right)
Intersects(f, x) == ~(x <= f.left) /\ ~(x >= f.right)

\* MembershipDivisor with the divisor of the falling edge on both edges
MembershipDivisor_falling(f, x) == f.top - f.right

\* the divisor of 1.0 / (...) in the branch taken for x, src/fzzlib.c:368-376
\* and 600-616
MembershipDivisor(f, x) ==
    IF x <= f.top THEN f.top - f.left ELSE f.top - f.right

\* the degree of x in the triangle f, for x strictly inside (left, right)
\* Membership with the falling edge taken without its offset of one
Membership_noOffset(f, x) ==
    IF x <= f.top
    THEN RatMul(Rat(1, f.top - f.left), RatInt(x - f.left))
    ELSE RatMul(Rat(1, f.top - f.right), RatInt(x - f.top))

Membership(f, x) ==
    IF x <= f.top
    THEN LET k == Rat(1, f.top - f.left)
             xn == x - f.left
         IN  RatMul(k, RatInt(xn))
    ELSE LET k == Rat(1, f.top - f.right)
             xn == x - f.top
         IN  RatAdd(RatMul(k, RatInt(xn)), One)

RECURSIVE fuzzifyFrom(_, _, _, _)
\* the loop of fzz_fuzzify from fuzzy set i on; out is fzfOut[in] so far
fuzzifyFrom(sys, in, i, out) ==
    IF i >= sys.inSet[in].length THEN out
    ELSE LET f == sys.inSet[in].fSet[i]
             x == sys.input[in]
         IN  IF x <= f.left \/ x >= f.right
             THEN fuzzifyFrom(sys, in, i + 1, out)
             ELSE fuzzifyFrom(sys, in, i + 1,
                      Append(out, [membership |-> Membership(f, x), setIndex |-> i]))

fzz_fuzzify(sys, in, out) == fuzzifyFrom(sys, in, 0, out)

-----------------------------------------------------------------------------
(* Rule parser, src/fzzlib.c:400-538.  p holds the locals of                *)
(* fzz_ininference: i is the index of the next character, wbuf the token    *)
(* collected so far (wbufLen is its length), inputs and inSets the arrays   *)
(* filled so far; states lists the values state has taken; res is "run",    *)
(* "abort" (an assert failed), "ub" (a write past the end of wbuf, inputs   *)
(* or inSets) or, at the end, "ok".                                         *)

Parse0 ==
    [state |-> 0, states |-> <<0>>, i |-> 0, wbuf |-> "", inputs |-> <<>>,
     inSets |-> <<>>, inLen |-> 0, output |-> 0, outSet |-> 0, res |-> "run"]

\* wbufLen = 0; state = s;
NextToken(p, s) == [p EXCEPT !.wbuf = "", !.state = s, !.states = Append(p.states, s)]

\* one turn of the while loop on character ch
ParseChar(sys, p, ch) ==
    IF Len(p.wbuf) >= WBUF_LENGTH
    THEN [p EXCEPT !.res = "ub"]
    ELSE IF p.state = 7 \/ ch # " "
    THEN [p EXCEPT !.wbuf = p.wbuf \o ch]
    ELSE CASE p.state = 0 ->
                IF p.wbuf = "if" THEN NextToken(p, 1) ELSE [p EXCEPT !.res = "abort"]
           [] p.state = 1 ->
                LET var == fzz_inputIndex(sys, p.wbuf)
                IN  IF var = -1 THEN [p EXCEPT !.res = "abort"]
                    ELSE IF p.inLen >= MAX_INPUTS THEN [p EXCEPT !.res = "ub"]
                    ELSE NextToken([p EXCEPT !.inputs = Append(p.inputs, var)], 2)
           [] p.state = 2 ->
                IF p.wbuf = "is" THEN NextToken(p, 3) ELSE [p EXCEPT !.res = "abort"]
           [] p.state = 3 ->
                LET var == fzz_inputFSetIndex(sys, p.inputs[p.inLen + 1], p.wbuf)
                IN  IF var = -1 THEN [p EXCEPT !.res = "abort"]
                    ELSE NextToken([p EXCEPT !.inSets = Append(p.inSets, var),
                                             !.inLen = p.inLen + 1], 4)
           [] p.state = 4 ->
                IF p.wbuf = "and" THEN NextToken(p, 1)
                ELSE IF p.wbuf = "then" THEN NextToken(p, 5)
                ELSE [p EXCEPT !.res = "abort"]
           [] p.state = 5 ->
                LET out == fzz_outputIndex(sys, p.wbuf)
                IN  IF out = -1 THEN [p EXCEPT !.res = "abort"]
                    ELSE NextToken([p EXCEPT !.output = out], 6)
           [] p.state = 6 ->
                IF p.wbuf = "is" THEN NextToken(p, 7) ELSE [p EXCEPT !.res = "abort"]

RECURSIVE ParseTurns(_, _, _, _)
\* at most n turns of the while loop: text[p.i] is the character
\* SubSeq(text, p.i + 1, p.i + 1)
ParseTurns(sys, text, p, n) ==
    IF n = 0 \/ p.res # "run" \/ p.i >= Len(text) THEN p
    ELSE LET q == ParseChar(sys, p, SubSeq(text, p.i + 1, p.i + 1))
         IN  ParseTurns(sys, text, IF q.res = "run" THEN [q EXCEPT !.i = p.i + 1] ELSE q,
                        n - 1)

RECURSIVE ParseFrom(_, _, _)
\* the while loop, taken 16 turns at a time to keep the evaluation shallow
ParseFrom(sys, text, p) ==
    IF p.res # "run" \/ p.i >= Len(text) THEN p
    ELSE ParseFrom(sys, text, ParseTurns(sys, text, p, 16))

\* finishing the state machine run, src/fzzlib.c:533-538
ParseEnd(sys, p) ==
    IF p.res # "run" THEN p
    ELSE IF Len(p.wbuf) >= WBUF_LENGTH THEN [p EXCEPT !.res = "ub"]
    ELSE LET outSet == fzz_outputFSetIndex(sys, p.output, p.wbuf)
         IN  IF outSet = -1 THEN [p EXCEPT !.res = "abort"]
             ELSE [p EXCEPT !.outSet = outSet, !.res = "ok"]

ParseRule(sys, text) == ParseEnd(sys, ParseFrom(sys, text, Parse0))

-----------------------------------------------------------------------------
(* Evaluation of the parsed rule, src/fzzlib.c:540-561 *)

RECURSIVE FirstClause(_, _, _, _)
\* the first j in from .. inLen-1 with inputs[j] = i, or -1
FirstClause(inputs, inLen, i, from) ==
    IF from >= inLen THEN -1
    ELSE IF inputs[from + 1] = i THEN from
    ELSE FirstClause(inputs, inLen, i, from + 1)

RECURSIVE SearchSet_last(_, _, _, _)
\* SearchSet keeping the degree found last instead of the least one
SearchSet_last(res, set, k, acc) ==
    IF k > Len(res) THEN acc
    ELSE IF res[k].setIndex = set
    THEN SearchSet_last(res, set, k + 1,
             [match |-> acc.match + 1, min |-> res[k].membership])
    ELSE SearchSet_last(res, set, k + 1, acc)

RECURSIVE SearchSet(_, _, _, _)
\* the k loop over fzfOut[i]; acc is [match, min]
SearchSet(res, set, k, acc) ==
    IF k > Len(res) THEN acc
    ELSE IF res[k].setIndex = set
    THEN SearchSet(res, set, k + 1,
             [match |-> acc.match + 1,
              min |-> IF acc.match = 0 THEN res[k].membership
                      ELSE IF RatLess(res[k].membership, acc.min) THEN res[k].membership
                      ELSE acc.min])
    ELSE SearchSet(res, set, k + 1, acc)

RECURSIVE EvalFrom(_, _, _, _, _)
\* the i loop over the inputs of the system
EvalFrom(sys, fzf, p, i, acc) ==
    IF i >= sys.inLen THEN acc
    ELSE LET j == FirstClause(p.inputs, p.inLen, i, 0)
         IN  IF j = -1 THEN EvalFrom(sys, fzf, p, i + 1, acc)
             ELSE EvalFrom(sys, fzf, p, i + 1, SearchSet(fzf[i], p.inSets[j + 1], 1, acc))

Evaluate(sys, fzf, p) == EvalFrom(sys, fzf, p, 0, [match |-> 0, min |-> Zero])

-----------------------------------------------------------------------------
(* fzz_ininference, src/fzzlib.c:400-579: the set of outcomes              *)
(* [st, infOut, log] of processing rule ruleIndex.  log keeps the locals    *)
(* of the call for the record of the cycle.                                 *)

LogEntry(text, p, ev, fired) ==
    [text |-> text, res |-> p.res, state |-> p.state, states |-> p.states, i |-> p.i,
     inputs |-> p.inputs, inSets |-> p.inSets, inLen |-> p.inLen,
     output |-> p.output, outSet |-> p.outSet,
     match |-> ev.match, min |-> ev.min, fired |-> fired]

\* what a build may do after a write outside an array
Undefined(inf, entry) ==
    {[st |-> "aborted", infOut |-> inf, log |-> entry],
     [st |-> "ub", infOut |-> inf, log |-> entry],
     [st |-> "ub",
      infOut |-> [o \in DOMAIN inf |->
                    IF o = 0 THEN Append(inf[0], [value |-> One, fSet |-> 0])
                    ELSE inf[o]],
      log |-> entry]}

RECURSIVE RuleString(_, _)
\* the characters read from fzzSystem.rule[ruleIndex] up to the first '\0',
\* src/fzzlib.c:423.  sys.rule holds what strncpy wrote to each slot: a text
\* of RULE_LENGTH characters fills its slot and leaves no '\0' in it, so the
\* read goes on in the next slot (a slot not written since fzz_init starts
\* with '\0')
RuleString(sys, ruleIndex) ==
    IF ruleIndex >= Len(sys.rule) THEN ""
    ELSE IF Len(sys.rule[ruleIndex + 1]) < RULE_LENGTH THEN sys.rule[ruleIndex + 1]
    ELSE sys.rule[ruleIndex + 1] \o RuleString(sys, ruleIndex + 1)

\* the read of rule ruleIndex leaves the array fzzSystem.rule
RuleOverrun(sys, ruleIndex) ==
    \A i \in ruleIndex .. MAX_RULES - 1 :
       i < Len(sys.rule) /\ Len(sys.rule[i + 1]) >= RULE_LENGTH

fzz_ininference(sys, fzf, inf, ruleIndex) ==
    LET text == RuleString(sys, ruleIndex)
        p == ParseRule(sys, text)
        ev == IF p.res = "ok" THEN Evaluate(sys, fzf, p) ELSE [match |-> 0, min |-> Zero]
    IN  IF RuleOverrun(sys, ruleIndex)
        THEN Undefined(inf, LogEntry(text, [p EXCEPT !.res = "ub"], ev, FALSE))
        ELSE IF p.res = "abort"
        THEN {[st |-> "aborted", infOut |-> inf, log |-> LogEntry(text, p, ev, FALSE)]}
        ELSE IF p.res = "ub"
        THEN Undefined(inf, LogEntry(text, p, ev, FALSE))
        ELSE IF ev.match = p.inLen
        THEN IF Len(inf[p.output]) >= MAX_INFRES
             THEN Undefined(inf, LogEntry(text, [p EXCEPT !.res = "ub"], ev, FALSE))
             ELSE {[st |-> "ok",
                    infOut |-> [inf EXCEPT ![p.output] =
                                   Append(inf[p.output], [value |-> ev.min, fSet |-> p.outSet])],
                    log |-> LogEntry(text, p, ev, TRUE)]}
        ELSE {[st |-> "ok", infOut |-> inf, log |-> LogEntry(text, p, ev, FALSE)]}

RECURSIVE inferTurns(_, _, _, _, _, _)
\* the turns with a rule that fails to parse stepped over
inferTurns_skips(sys, fzf, inf, i, log, n) ==
    IF n = 0 \/ i >= sys.ruLen \/ Len(log) < 0
    THEN {[st |-> "ok", infOut |-> inf, log |-> log, i |-> i]}
    ELSE UNION { IF o.st = "ok" \/ o.log.res = "abort"
                 THEN inferTurns(sys, fzf, o.infOut, i + 1, Append(log, o.log), n - 1)
                 ELSE {[st |-> o.st, infOut |-> o.infOut,
                        log |-> Append(log, o.log), i |-> i]}
                 : o \in fzz_ininference(sys, fzf, inf, i) }

\* at most n turns of the rule loop of fzz_calculateOutput from rule i on:
\* the set of [st, infOut, log, i] the turns can leave; an assert failure
\* ends the process at the failing rule.  The length of log is never
\* negative: reading it only makes the log be worked out turn by turn
inferTurns(sys, fzf, inf, i, log, n) ==
    IF n = 0 \/ i >= sys.ruLen \/ Len(log) < 0
    THEN {[st |-> "ok", infOut |-> inf, log |-> log, i |-> i]}
    ELSE UNION { IF o.st = "ok"
                 THEN inferTurns(sys, fzf, o.infOut, i + 1, Append(log, o.log), n - 1)
                 ELSE {[st |-> o.st, infOut |-> o.infOut,
                        log |-> Append(log, o.log), i |-> i]}
                 : o \in fzz_ininference(sys, fzf, inf, i) }

RECURSIVE inferFrom(_, _, _, _, _)
\* the rule loop of fzz_calculateOutput, src/fzzlib.c:685-686, taken 16
\* turns at a time to keep the evaluation shallow
inferFrom(sys, fzf, inf, i, log) ==
    IF i >= sys.ruLen THEN {[st |-> "ok", infOut |-> inf, log |-> log]}
    ELSE UNION { IF t.st = "ok"
                 THEN inferFrom(sys, fzf, t.infOut, t.i, t.log)
                 ELSE {[st |-> t.st, infOut |-> t.infOut, log |-> t.log]}
                 : t \in inferTurns(sys, fzf, inf, i, log, 16) }

-----------------------------------------------------------------------------
(* Defuzzification, src/fzzlib.c:585-662 *)

RatMin(a, b) == IF RatLess(b, a) THEN b ELSE a

RECURSIVE outputValueTurns_sum(_, _, _, _, _, _)
\* the turns with the clipped degrees of the records added up
outputValueTurns_sum(fSets, res, x, i, max, n) ==
    IF n = 0 \/ i > Len(res) \/ max[2] = 0 THEN [i |-> i, max |-> max]
    ELSE LET f == fSets[res[i].fSet]
         IN  IF x <= f.left \/ x >= f.right
             THEN outputValueTurns_sum(fSets, res, x, i + 1, max, n - 1)
             ELSE LET memb == RatMin(Membership(f, x), res[i].value)
                  IN  outputValueTurns_sum(fSets, res, x, i + 1, RatAdd(max, memb), n - 1)

RECURSIVE outputValueTurns(_, _, _, _, _, _)
\* at most n turns of the record loop of fzz_outputValue from record i on;
\* max is the running maximum, a number (never n/0: the loop test reads it to
\* have it worked out turn by turn); the result is [i, max] as the turns
\* leave them
outputValueTurns(fSets, res, x, i, max, n) ==
    IF n = 0 \/ i > Len(res) \/ max[2] = 0 THEN [i |-> i, max |-> max]
    ELSE LET f == fSets[res[i].fSet]
         IN  IF x <= f.left \/ x >= f.right
             THEN outputValueTurns(fSets, res, x, i + 1, max, n - 1)
             ELSE LET memb == RatMin(Membership(f, x), res[i].value)
                  IN  outputValueTurns(fSets, res, x, i + 1,
                          IF RatLess(max, memb) THEN memb ELSE max, n - 1)

RECURSIVE outputValueFrom(_, _, _, _, _)
\* the record loop of fzz_outputValue, taken 16 turns at a time to keep the
\* evaluation shallow
outputValueFrom(fSets, res, x, i, max) ==
    IF i > Len(res) THEN max
    ELSE LET t == outputValueTurns(fSets, res, x, i, max, 16)
         IN  outputValueFrom(fSets, res, x, t.i, t.max)

fzz_outputValue(sys, inf, output, x) ==
    outputValueFrom(sys.outSet[output].fSet, inf[output], x, 1, Zero)

RECURSIVE rangeTurns(_, _, _, _, _)
\* at most n turns of the range search of fzz_defuzzify from record i on;
\* acc is [max, from, to], and max tells that from and to are still DBL_MAX
\* and -DBL_MAX (which ends with the first record: the loop test reads it to
\* have acc worked out turn by turn); the result is [i, acc]
rangeTurns(fSets, res, i, acc, n) ==
    IF n = 0 \/ i > Len(res) \/ (acc.max /\ i > 1) THEN [i |-> i, acc |-> acc]
    ELSE LET f == fSets[res[i].fSet]
         IN  rangeTurns(fSets, res, i + 1,
                 [max |-> FALSE,
                  from |-> IF acc.max \/ f.left < acc.from THEN f.left ELSE acc.from,
                  to |-> IF acc.max \/ f.right > acc.to THEN f.right ELSE acc.to], n - 1)

RECURSIVE rangeFrom(_, _, _, _)
\* the range search of fzz_defuzzify, taken 16 turns at a time to keep the
\* evaluation shallow
rangeFrom(fSets, res, i, acc) ==
    IF i > Len(res) THEN acc
    ELSE LET t == rangeTurns(fSets, res, i, acc, 16)
         IN  rangeFrom(fSets, res, t.i, t.acc)

RECURSIVE integrateTurns_nextSample(_, _, _, _, _, _, _)
\* integrateTurns that weights each surface value with the sample point
\* after its own
integrateTurns_nextSample(sys, inf, output, x, to, acc, n) ==
    IF n = 0 \/ ~(x < to + COG_STEP) \/ acc.denominator[2] = 0
    THEN [x |-> x, acc |-> acc]
    ELSE LET max == fzz_outputValue(sys, inf, output, x)
         IN  integrateTurns_nextSample(sys, inf, output, x + COG_STEP, to,
                 [numerator |-> RatAdd(acc.numerator, RatMul(RatInt(x + COG_STEP), max)),
                  denominator |-> RatAdd(acc.denominator, max)], n - 1)

RECURSIVE integrateTurns(_, _, _, _, _, _, _)
\* at most n turns of the integration loop from x on; acc is [numerator,
\* denominator], the result is [x, acc] as the turns leave them.  A
\* denominator is never n/0: reading it in the loop test only makes the sums
\* be worked out turn by turn
integrateTurns(sys, inf, output, x, to, acc, n) ==
    IF n = 0 \/ ~(x < to + COG_STEP) \/ acc.denominator[2] = 0
    THEN [x |-> x, acc |-> acc]
    ELSE LET max == fzz_outputValue(sys, inf, output, x)
         IN  integrateTurns(sys, inf, output, x + COG_STEP, to,
                 [numerator |-> RatAdd(acc.numerator, RatMul(RatInt(x), max)),
                  denominator |-> RatAdd(acc.denominator, max)], n - 1)

RECURSIVE integrate(_, _, _, _, _, _)
\* the integration loop, src/fzzlib.c:654-658, taken 64 turns at a time to
\* keep the evaluation shallow
integrate(sys, inf, output, x, to, acc) ==
    IF ~(x < to + COG_STEP) THEN acc
    ELSE LET t == integrateTurns(sys, inf, output, x, to, acc, 64)
         IN  integrate(sys, inf, output, t.x, to, t.acc)

\* fzz_defuzzify with the range of the first firing record only
defuzzify_firstRange(sys, inf, output) ==
    LET r == rangeFrom(sys.outSet[output].fSet, SubSeq(inf[output], 1, 1), 1,
                       [max |-> TRUE, from |-> 0, to |-> 0])
        acc0 == [numerator |-> Zero, denominator |-> Zero]
        acc == IF r.max THEN acc0
               ELSE integrate(sys, inf, output, r.from, r.to, acc0)
    IN  FDiv(acc.numerator, acc.denominator)

\* the value stored in fzzSystem.output[output]
fzz_defuzzify(sys, inf, output) ==
    LET r == rangeFrom(sys.outSet[output].fSet, inf[output], 1,
                       [max |-> TRUE, from |-> 0, to |-> 0])
        acc0 == [numerator |-> Zero, denominator |-> Zero]
        acc == IF r.max THEN acc0
               ELSE integrate(sys, inf, output, r.from, r.to, acc0)
    IN  FDiv(acc.numerator, acc.denominator)

-----------------------------------------------------------------------------
(* fzz_calculateOutput, src/fzzlib.c:664-695: the set of outcomes          *)
(* [st, sys, fzfOut, infOut, log].                                         *)

\* a fzz_calculateOutput that leaves out "fzfOut[i].length = 0"
calculateOutput_keepsFuzzify(sys, fzf, inf) ==
    LET fzf1 == [i \in 0 .. MAX_INPUTS - 1 |->
                    IF i < sys.inLen THEN fzz_fuzzify(sys, i, fzf[i]) ELSE fzf[i]]
        inf0 == [i \in 0 .. MAX_OUTPUTS - 1 |->
                    IF i < sys.outLen THEN <<>> ELSE inf[i]]
    IN  { [st |-> o.st,
           sys |-> IF o.st = "ok"
                   THEN [sys EXCEPT !.output =
                            [i \in 0 .. MAX_OUTPUTS - 1 |->
                                IF i < sys.outLen THEN fzz_defuzzify(sys, o.infOut, i)
                                ELSE sys.output[i]]]
                   ELSE sys,
           fzfOut |-> fzf1, infOut |-> o.infOut, log |-> o.log]
          : o \in inferFrom(sys, fzf1, inf0, 0, <<>>) }

fzz_calculateOutput(sys, fzf, inf) ==
    LET fzf1 == [i \in 0 .. MAX_INPUTS - 1 |->
                    IF i < sys.inLen THEN fzz_fuzzify(sys, i, <<>>) ELSE fzf[i]]
        inf0 == [i \in 0 .. MAX_OUTPUTS - 1 |->
                    IF i < sys.outLen THEN <<>> ELSE inf[i]]
    IN  { [st |-> o.st,
           sys |-> IF o.st = "ok"
                   THEN [sys EXCEPT !.output =
                            [i \in 0 .. MAX_OUTPUTS - 1 |->
                                IF i < sys.outLen THEN fzz_defuzzify(sys, o.infOut, i)
                                ELSE sys.output[i]]]
                   ELSE sys,
           fzfOut |-> fzf1, infOut |-> o.infOut, log |-> o.log]
          : o \in inferFrom(sys, fzf1, inf0, 0, <<>>) }

-----------------------------------------------------------------------------
(* The calls of the public interface, src/fzzlib.h:29-109, as actions.     *)
(* lastCall tells whether the latest call was fzz_calculateOutput,          *)
(* fzz_getOutput or a call that sets something ("set"), and holds what it   *)
(* returned; its field cycle tells that a fzz_calculateOutput has returned  *)
(* and nothing was set since, and again that the call was a                 *)
(* fzz_calculateOutput made in such a state.  ruleLog holds the per-rule    *)
(* record of the latest fzz_calculateOutput.  No call is made once the      *)
(* process has aborted or run into undefined behaviour.                     *)

Call(name, ret, cycle, again) ==
    [name |-> name, ret |-> ret, cycle |-> cycle, again |-> again]

Returned(r) ==
    /\ fzzSystem' = r.sys
    /\ status' = r.st
    /\ lastCall' = Call("set", <<>>, FALSE, FALSE)
    /\ ruleLog' = <<>>
    /\ UNCHANGED <<fzfOut, infOut>>

InitSystem(inputs, outputs) ==
    /\ status = "ok"
    /\ Returned(fzz_init(fzzSystem, inputs, outputs))

InitInputFcns(index, length, name) ==
    /\ status = "ok"
    /\ Returned(fzz_initInputFcns(fzzSystem, index, length, name))

InitOutputFcns(index, length, name) ==
    /\ status = "ok"
    /\ Returned(fzz_initOutputFcns(fzzSystem, index, length, name))

SetInputFcn(index, fcSet, left, top, right, name) ==
    /\ status = "ok"
    /\ Returned(fzz_setInputFcn(fzzSystem, index, fcSet, left, top, right, name))

SetOutputFcn(index, fcSet, left, top, right, name) ==
    /\ status = "ok"
    /\ Returned(fzz_setOutputFcn(fzzSystem, index, fcSet, left, top, right, name))

AddRule(rule) ==
    /\ status = "ok"
    /\ Returned(fzz_addRule(fzzSystem, rule))

SetInput(index, value) ==
    /\ status = "ok"
    /\ Returned(fzz_setInput(fzzSystem, index, value))

GetOutput(index) ==
    /\ status = "ok"
    /\ LET r == fzz_getOutput(fzzSystem, index)
       IN  /\ status' = r.st
           /\ lastCall' = Call("getOutput", r.ret, lastCall.cycle /\ r.st = "ok", FALSE)
    /\ ruleLog' = <<>>
    /\ UNCHANGED <<fzzSystem, fzfOut, infOut>>

CalculateOutput ==
    /\ status = "ok"
    /\ \E o \in fzz_calculateOutput(fzzSystem, fzfOut, infOut) :
          /\ fzzSystem' = o.sys
          /\ fzfOut' = o.fzfOut
          /\ infOut' = o.infOut
          /\ status' = o.st
          /\ ruleLog' = o.log
          /\ lastCall' = Call("calculateOutput", <<>>, o.st = "ok", lastCall.cycle)

-----------------------------------------------------------------------------
(* Spec: the life of one system from program start, with the calls'        *)
(* arguments drawn from small sets.                                         *)

MaxRules == 2

InitArgs == {<<1, 1>>}
VarArgs == {<<0, 2>>}
InTerms == {<<0, 0, -100, 0, 100, "lo">>, <<1, 0, 0, 100, 200, "hi">>}
OutTerms == {<<0, 0, 0, 3, 8, "lo">>, <<1, 0, 4, 8, 12, "hi">>}
Rules == {"if x is lo then y is lo", "if x is hi then y is hi"}
InputValues == {-50, 50, 100}

Init ==
    /\ fzzSystem = TFzzSystem0
    /\ fzfOut = fzfOut0
    /\ infOut = infOut0
    /\ status = "ok"
    /\ lastCall = Call("none", <<>>, FALSE, FALSE)
    /\ ruleLog = <<>>

Next ==
    \/ \E a \in InitArgs : InitSystem(a[1], a[2])
    \/ \E a \in VarArgs : InitInputFcns(a[1], a[2], "x")
    \/ \E a \in VarArgs : InitOutputFcns(a[1], a[2], "y")
    \/ \E t \in InTerms : SetInputFcn(t[1], t[2], t[3], t[4], t[5], t[6])
    \/ \E t \in OutTerms : SetOutputFcn(t[1], t[2], t[3], t[4], t[5], t[6])
    \/ \E r \in Rules : fzzSystem.ruLen < MaxRules /\ AddRule(r)
    \/ \E v \in InputValues : SetInput(0, v)
    \/ GetOutput(0)
    \/ CalculateOutput

Spec == Init /\ [][Next]_vars

-----------------------------------------------------------------------------
(* SpecRules: a configured system (two inputs x and v, one output y, each   *)
(* variable with the fuzzy sets neg and pos; the third fuzzy set of x and   *)
(* of y is declared by the length and never set) to which rule texts are    *)
(* added and which is then evaluated.  RuleSystem is built by the set-up    *)
(* calls themselves, as fzz_test3 (src/fzzlib.c:868-893) builds its system. *)

RuleSystem ==
    LET s0 == fzz_init(TFzzSystem0, 2, 1).sys
        s1 == fzz_initInputFcns(s0, 0, 3, "x").sys
        s2 == fzz_initInputFcns(s1, 1, 2, "v").sys
        s3 == fzz_initOutputFcns(s2, 0, 3, "y").sys
        s4 == fzz_setInputFcn(s3, 0, 0, -100, 0, 100, "neg").sys
        s5 == fzz_setInputFcn(s4, 1, 0, 0, 100, 200, "pos").sys
        s6 == fzz_setInputFcn(s5, 0, 1, -100, 0, 100, "neg").sys
        s7 == fzz_setInputFcn(s6, 1, 1, 0, 100, 200, "pos").sys
        s8 == fzz_setOutputFcn(s7, 0, 0, -8, -4, 0, "neg").sys
    IN  fzz_setOutputFcn(s8, 1, 0, 0, 4, 8, "pos").sys

MaxStored == 1

GoodTexts ==
    {"if x is pos then y is neg",
     "if x is pos and v is pos then y is pos",
     "if v is pos and x is pos then y is pos",
     "if x is neg and v is neg then y is neg",
     "if x is neg and x is pos then y is neg",
     "if x is pos and v is pos and x is pos then y is pos",
     "if x is neg and v is neg and x is neg and v is neg and x is neg then y is neg"}

BadTexts ==
    {"if x iz pos then y is neg",
     "If x is pos then y is neg",
     "if x is pos or v is pos then y is neg",
     "if x is huge then y is neg",
     "if q is pos then y is neg",
     "if x is pos then q is neg",
     "if x is pos then y is huge",
     "if x is neg",
     "if x is pos then",
     "if x is pos then pos",
     "pos",
     "",
     "if x is  then y is neg",
     "if  x is pos then y is neg",
     "if x is pos  then y is neg"}

RuleTexts == GoodTexts \cup BadTexts

RuleInputs == {<<0, 30>>, <<0, 150>>, <<1, 70>>}

InitRules ==
    /\ fzzSystem = RuleSystem
    /\ fzfOut = fzfOut0
    /\ infOut = infOut0
    /\ status = "ok"
    /\ lastCall = Call("set", <<>>, FALSE, FALSE)
    /\ ruleLog = <<>>

NextRules ==
    \/ \E r \in RuleTexts : fzzSystem.ruLen < MaxStored /\ AddRule(r)
    \/ \E a \in RuleInputs : SetInput(a[1], a[2])
    \/ GetOutput(0)
    \/ CalculateOutput

SpecRules == InitRules /\ [][NextRules]_vars

-----------------------------------------------------------------------------
(* Properties of the evaluation cycle, checked under Spec *)

Outputs == 0 .. fzzSystem.outLen - 1

\* C1: a fzz_calculateOutput made right after a completed one, or after
\* fzz_getOutput calls only, completes and leaves every output value, every
\* fuzzification result and every inference result as the first call left it.
C1_SecondCallSame ==
    [][(status = "ok" /\ lastCall.cycle /\ lastCall'.name = "calculateOutput")
         => /\ status' = "ok"
            /\ fzzSystem'.output = fzzSystem.output
            /\ fzfOut' = fzfOut
            /\ infOut' = infOut]_vars

\* a second call in a row has returned, with a rule fired and a number stored
C1_Witness ==
    /\ status = "ok"
    /\ lastCall.name = "calculateOutput"
    /\ lastCall.again
    /\ fzfOut[0] # <<>>
    /\ infOut[0] # <<>>
    /\ fzzSystem.output[0] # NaN

\* C4: a fzz_calculateOutput in which no rule fires for an output leaves the
\* stored value of that output as it was before the call.
C4_NoFiringKeepsOutput ==
    [][(status = "ok" /\ lastCall'.name = "calculateOutput" /\ status' = "ok")
         => \A o \in Outputs :
               infOut'[o] = <<>> => fzzSystem'.output[o] = fzzSystem.output[o]]_vars

-----------------------------------------------------------------------------
(* The membership specification: a system with one input "x" of two fuzzy   *)
(* sets and one output "y", as fzz_test1 (src/fzzlib.c:785-801) builds it.  *)
(* The fuzzy set "a" is moved over a grid of vertices, the input over a     *)
(* grid of values reaching beyond it.                                       *)

FuzzifySystem ==
    LET s0 == fzz_init(TFzzSystem0, 1, 1).sys
        s1 == fzz_initInputFcns(s0, 0, 2, "x").sys
        s2 == fzz_initOutputFcns(s1, 0, 1, "y").sys
        s3 == fzz_setInputFcn(s2, 0, 0, -100, 0, 100, "a").sys
        s4 == fzz_setInputFcn(s3, 1, 0, 0, 100, 200, "b").sys
        s5 == fzz_setOutputFcn(s4, 0, 0, 0, 4, 8, "o").sys
    IN  fzz_addRule(s5, "if x is a then y is o").sys

Grid == {-100, -50, 0, 50, 100}

Triangles == {t \in Grid \X Grid \X Grid : t[1] <= t[2] /\ t[2] <= t[3]}

FuzzifyValues == Grid \cup {-150, 150}

InitFuzzify ==
    /\ fzzSystem = FuzzifySystem
    /\ fzfOut = fzfOut0
    /\ infOut = infOut0
    /\ status = "ok"
    /\ lastCall = Call("none", <<>>, FALSE, FALSE)
    /\ ruleLog = <<>>

NextFuzzify ==
    \/ \E t \in Triangles : SetInputFcn(0, 0, t[1], t[2], t[3], "a")
    \/ \E v \in FuzzifyValues : SetInput(0, v)
    \/ CalculateOutput

SpecFuzzify == InitFuzzify /\ [][NextFuzzify]_vars

-----------------------------------------------------------------------------
(* Properties of rule evaluation, checked under SpecRules.  They read the   *)
(* state a fzz_calculateOutput has left: ruleLog[k] is the record of the    *)
(* k-th stored rule, fzfOut the fuzzification results the rules were        *)
(* evaluated on, infOut the firing records.                                 *)

Evaluated == lastCall.name = "calculateOutput" /\ status # "ub"

LogIndex == 1 .. Len(ruleLog)

\* the degrees fzfOut holds for fuzzy set `set` of input `in`
Degrees(in, set) ==
    {fzfOut[in][k].membership :
        k \in {m \in 1 .. Len(fzfOut[in]) : fzfOut[in][m].setIndex = set}}

\* the antecedent clauses (input, fuzzy set) of a parsed rule
Clauses(e) == {<<e.inputs[j], e.inSets[j]>> : j \in 1 .. e.inLen}

ClauseDegrees(e) == UNION {Degrees(c[1], c[2]) : c \in Clauses(e)}

\* how many of the first k rules have added a record to output o
FiredUpTo(k, o) ==
    Cardinality({m \in 1 .. k : ruleLog[m].fired /\ ruleLog[m].output = o})

\* the firing record rule k has added
RecordOf(k) == infOut[ruleLog[k].output][FiredUpTo(k, ruleLog[k].output)]

\* C2: a parsed rule adds a firing record if and only if the fuzzy set of
\* every one of its antecedent clauses is in the fuzzification result of the
\* clause's input, and the inference results hold these records and no other.
C2_FiresIffAllPresent ==
    Evaluated =>
        /\ \A k \in LogIndex :
              ruleLog[k].res = "ok" =>
                 (ruleLog[k].fired <=>
                     \A c \in Clauses(ruleLog[k]) : Degrees(c[1], c[2]) # {})
        /\ \A o \in Outputs : Len(infOut[o]) = FiredUpTo(Len(ruleLog), o)

\* C3: the strength recorded for a rule that fired is the least of the
\* degrees of the fuzzy sets of its antecedent clauses.
C3_StrengthIsMin ==
    Evaluated =>
        \A k \in LogIndex :
           (ruleLog[k].fired /\ ruleLog[k].inLen >= 1) =>
              \E d \in ClauseDegrees(ruleLog[k]) :
                 /\ \A x \in ClauseDegrees(ruleLog[k]) : RatLeq(d, x)
                 /\ RecordOf(k).value = d

\* a rule whose clauses name v first (degree 0.7) and x second (degree 0.3)
\* has fired with strength 0.3
C3_Witness ==
    /\ Evaluated
    /\ \E k \in LogIndex :
          /\ ruleLog[k].fired
          /\ ruleLog[k].inputs = <<1, 0>>
          /\ ClauseDegrees(ruleLog[k]) = {<<3, 10>>, <<7, 10>>}
          /\ Degrees(1, 1) = {<<7, 10>>}
          /\ RecordOf(k).value = <<3, 10>>

-----------------------------------------------------------------------------
(* The rule grammar, read off the text independently of the parser:         *)
(* "if" VAR "is" TERM ("and" VAR "is" TERM)* "then" VAR "is" TERM, the      *)
(* tokens being the pieces between single space characters.                 *)

RECURSIVE SplitFrom(_, _, _, _)
SplitFrom(text, i, cur, acc) ==
    IF i > Len(text) THEN Append(acc, cur)
    ELSE IF SubSeq(text, i, i) = " " THEN SplitFrom(text, i + 1, "", Append(acc, cur))
    ELSE SplitFrom(text, i + 1, cur \o SubSeq(text, i, i), acc)

Tokens(text) == SplitFrom(text, 1, "", <<>>)

RECURSIVE Walk(_, _, _)
\* the grammar position of token i and of the tokens after it, as far as the
\* keywords before them are the expected ones
Walk(toks, i, pos) ==
    IF i > Len(toks) THEN <<>>
    ELSE <<pos>> \o
         CASE pos = "if" -> IF toks[i] = "if" THEN Walk(toks, i + 1, "var") ELSE <<>>
           [] pos = "var" -> Walk(toks, i + 1, "is")
           [] pos = "is" -> IF toks[i] = "is" THEN Walk(toks, i + 1, "term") ELSE <<>>
           [] pos = "term" -> Walk(toks, i + 1, "andthen")
           [] pos = "andthen" ->
                IF toks[i] = "and" THEN Walk(toks, i + 1, "var")
                ELSE IF toks[i] = "then" THEN Walk(toks, i + 1, "outvar")
                ELSE <<>>
           [] pos = "outvar" -> Walk(toks, i + 1, "outis")
           [] pos = "outis" -> IF toks[i] = "is" THEN Walk(toks, i + 1, "outterm") ELSE <<>>
           [] pos = "outterm" -> Walk(toks, i + 1, "extra")
           [] pos = "extra" -> Walk(toks, i + 1, "extra")

Positions(text) == Walk(Tokens(text), 1, "if")

InputNamed(name) == {i \in 0 .. fzzSystem.inLen - 1 : fzzSystem.inSet[i].name = name}
OutputNamed(name) == {i \in 0 .. fzzSystem.outLen - 1 : fzzSystem.outSet[i].name = name}
InputTermNamed(var, name) ==
    {j \in 0 .. fzzSystem.inSet[var].length - 1 : fzzSystem.inSet[var].fSet[j].name = name}
OutputTermNamed(var, name) ==
    {j \in 0 .. fzzSystem.outSet[var].length - 1 : fzzSystem.outSet[var].fSet[j].name = name}

\* a keyword position holds a token that is not the keyword
KeywordMismatch(text) ==
    LET toks == Tokens(text)
        pos == Positions(text)
    IN  \E i \in 1 .. Len(pos) :
           \/ pos[i] = "if" /\ toks[i] # "if"
           \/ pos[i] \in {"is", "outis"} /\ toks[i] # "is"
           \/ pos[i] = "andthen" /\ toks[i] \notin {"and", "then"}

\* a variable or term position holds a token that is no name of a variable,
\* or no name of a fuzzy set of the variable named before it
NameMismatch(text) ==
    LET toks == Tokens(text)
        pos == Positions(text)
    IN  \E i \in 1 .. Len(pos) :
           \/ pos[i] = "var" /\ InputNamed(toks[i]) = {}
           \/ pos[i] = "outvar" /\ OutputNamed(toks[i]) = {}
           \/ /\ pos[i] = "term"
              /\ \A v \in InputNamed(toks[i - 2]) : InputTermNamed(v, toks[i]) = {}
           \/ /\ pos[i] = "outterm"
              /\ \A v \in OutputNamed(toks[i - 2]) : OutputTermNamed(v, toks[i]) = {}

\* the text is a sentence of the grammar and all its names resolve
WellFormed(text) ==
    LET toks == Tokens(text)
        pos == Positions(text)
    IN  /\ Len(pos) = Len(toks)
        /\ pos[Len(pos)] = "outterm"
        /\ ~KeywordMismatch(text)
        /\ ~NameMismatch(text)

\* C5: a rule with a wrong token at a keyword position makes the evaluation
\* fail and adds no firing record.
C5_KeywordMismatchFails ==
    lastCall.name = "calculateOutput" =>
        \A k \in LogIndex :
           KeywordMismatch(ruleLog[k].text) =>
              (status = "aborted" /\ ruleLog[k].res = "abort" /\ ~ruleLog[k].fired)

\* C6: a rule with an unknown variable or term name makes the evaluation
\* fail and adds no firing record.
C6_NameMismatchFails ==
    lastCall.name = "calculateOutput" =>
        \A k \in LogIndex :
           NameMismatch(ruleLog[k].text) =>
              (status = "aborted" /\ ruleLog[k].res = "abort" /\ ~ruleLog[k].fired)

\* C7: a rule text whose end is met in one of the parser states 0 to 6 is
\* rejected and adds no firing record.
C7_ShortTextRejected ==
    lastCall.name = "calculateOutput" =>
        \A k \in LogIndex :
           (ruleLog[k].i = Len(ruleLog[k].text) /\ ruleLog[k].state <= 6) =>
              (ruleLog[k].res = "abort" /\ ~ruleLog[k].fired)

RECURSIVE Repeat(_, _)
Repeat(seq, n) == IF n = 0 THEN <<>> ELSE seq \o Repeat(seq, n - 1)

\* C8: a well-formed rule text with resolvable names is parsed into the
\* (input, fuzzy set) pairs of its clauses in clause order and the (output,
\* fuzzy set) pair of its consequent, through the states 0, 1, 2, 3, 4,
\* (1, 2, 3, 4)*, 5, 6, 7.
C8_ParsedAsWritten ==
    lastCall.name = "calculateOutput" =>
        \A k \in LogIndex :
           LET e == ruleLog[k]
               toks == Tokens(e.text)
               n == (Len(toks) - 4) \div 4
           IN  WellFormed(e.text) =>
                  /\ e.res = "ok"
                  /\ e.inLen = n
                  /\ Len(e.inputs) = n /\ Len(e.inSets) = n
                  /\ \A j \in 1 .. n :
                        /\ e.inputs[j] \in InputNamed(toks[4 * j - 2])
                        /\ e.inSets[j] \in InputTermNamed(e.inputs[j], toks[4 * j])
                  /\ e.output \in OutputNamed(toks[4 * n + 2])
                  /\ e.outSet \in OutputTermNamed(e.output, toks[4 * n + 4])
                  /\ e.states = <<0>> \o Repeat(<<1, 2, 3, 4>>, n) \o <<5, 6, 7>>

\* C9: a rule text with an empty token before its last token is rejected.
C9_EmptyTokenRejected ==
    lastCall.name = "calculateOutput" =>
        \A k \in LogIndex :
           LET toks == Tokens(ruleLog[k].text)
           IN  (\E i \in 1 .. Len(toks) - 1 : toks[i] = "") =>
                  (status = "aborted" /\ ruleLog[k].res = "abort")

-----------------------------------------------------------------------------
(* Properties of fuzzification, checked under SpecFuzzify. *)

\* C10: for a fuzzy set with left < top < right and input x, the
\* fuzzification result holds no entry of the set if x <= left or x >= right,
\* one entry of degree (x - left)/(top - left) if left < x <= top, and one of
\* degree (x - top)/(top - right) + 1 if top < x < right.
C10_TriangularDegree ==
    (lastCall.name = "calculateOutput" /\ status = "ok") =>
        \A j \in 0 .. fzzSystem.inSet[0].length - 1 :
           LET f == fzzSystem.inSet[0].fSet[j]
               x == fzzSystem.input[0]
               entries == {m \in 1 .. Len(fzfOut[0]) : fzfOut[0][m].setIndex = j}
           IN  (f.left < f.top /\ f.top < f.right) =>
                  IF x <= f.left \/ x >= f.right
                  THEN entries = {}
                  ELSE /\ Cardinality(entries) = 1
                       /\ Degrees(0, j) =
                             IF x <= f.top
                             THEN {Rat(x - f.left, f.top - f.left)}
                             ELSE {RatAdd(Rat(x - f.top, f.top - f.right), One)}

\* the set (-1, 0, 1) has given 0.5 at 0.5, on its falling edge
C10_Witness ==
    /\ lastCall.name = "calculateOutput" /\ status = "ok"
    /\ fzzSystem.inSet[0].fSet[0].left = -100
    /\ fzzSystem.inSet[0].fSet[0].top = 0
    /\ fzzSystem.inSet[0].fSet[0].right = 100
    /\ fzzSystem.input[0] = 50
    /\ Degrees(0, 0) = {<<1, 2>>}

\* the fuzzy sets of input i whose open support holds the input value
Supporting(i) ==
    {j \in 0 .. fzzSystem.inSet[i].length - 1 :
        /\ fzzSystem.inSet[i].fSet[j].left < fzzSystem.input[i]
        /\ fzzSystem.input[i] < fzzSystem.inSet[i].fSet[j].right}

\* C11: after fzz_calculateOutput the fuzzification result of every input
\* holds one entry for each fuzzy set whose open support (left, right) holds
\* the input value and no other entry, in ascending order of the set index.
C11_ExactEntries ==
    (lastCall.name = "calculateOutput" /\ status # "ub") =>
        \A i \in 0 .. fzzSystem.inLen - 1 :
           /\ {fzfOut[i][k].setIndex : k \in 1 .. Len(fzfOut[i])} = Supporting(i)
           /\ Len(fzfOut[i]) = Cardinality(Supporting(i))
           /\ \A k \in 1 .. Len(fzfOut[i]) - 1 :
                 fzfOut[i][k].setIndex < fzfOut[i][k + 1].setIndex

\* both fuzzy sets of x hold the input value and the result has the two
\* entries, set 0 first
C11_Witness ==
    /\ lastCall.name = "calculateOutput" /\ status = "ok"
    /\ Supporting(0) = {0, 1}
    /\ Len(fzfOut[0]) = 2
    /\ fzfOut[0][1].setIndex = 0 /\ fzfOut[0][2].setIndex = 1

-----------------------------------------------------------------------------
(* SpecDefuzzify: one input x with the fuzzy sets a and b, one output y     *)
(* with the fuzzy sets p and q and one rule for each, built as fzz_test1    *)
(* (src/fzzlib.c:785-806) builds its system.  The fuzzy set p is moved over *)
(* a grid of vertices that holds shapes narrower than the integration step  *)
(* and widths that are no multiple of it.                                   *)

DefuzzifySystem ==
    LET s0 == fzz_init(TFzzSystem0, 1, 1).sys
        s1 == fzz_initInputFcns(s0, 0, 2, "x").sys
        s2 == fzz_initOutputFcns(s1, 0, 2, "y").sys
        s3 == fzz_setInputFcn(s2, 0, 0, -100, 0, 100, "a").sys
        s4 == fzz_setInputFcn(s3, 1, 0, 0, 100, 200, "b").sys
        s5 == fzz_setOutputFcn(s4, 0, 0, 0, 2, 5, "p").sys
        s6 == fzz_setOutputFcn(s5, 1, 0, 4, 8, 12, "q").sys
        s7 == fzz_addRule(s6, "if x is a then y is p").sys
    IN  fzz_addRule(s7, "if x is b then y is q").sys

OutGrid == {0, 1, 2, 5, 9}

OutTriangles == {t \in OutGrid \X OutGrid \X OutGrid : t[1] <= t[2] /\ t[2] <= t[3]}

DefuzzifyValues == {0, 50, 100}

InitDefuzzify ==
    /\ fzzSystem = DefuzzifySystem
    /\ fzfOut = fzfOut0
    /\ infOut = infOut0
    /\ status = "ok"
    /\ lastCall = Call("set", <<>>, FALSE, FALSE)
    /\ ruleLog = <<>>

NextDefuzzify ==
    \/ \E t \in OutTriangles : SetOutputFcn(0, 0, t[1], t[2], t[3], "p")
    \/ \E v \in DefuzzifyValues : SetInput(0, v)
    \/ GetOutput(0)
    \/ CalculateOutput

SpecDefuzzify == InitDefuzzify /\ [][NextDefuzzify]_vars

-----------------------------------------------------------------------------
(* Properties of defuzzification, checked under SpecDefuzzify.  The surface *)
(* and the sums are written here from the set of firing records, not by    *)
(* the loops of the library.                                                *)

Completed == lastCall.name = "calculateOutput" /\ status = "ok"

\* the fuzzy sets of output o named by its firing records
Referenced(o) ==
    {fzzSystem.outSet[o].fSet[infOut[o][k].fSet] : k \in 1 .. Len(infOut[o])}

LeastLeft(o) ==
    CHOOSE l \in {f.left : f \in Referenced(o)} :
        \A f \in Referenced(o) : l <= f.left

GreatestRight(o) ==
    CHOOSE r \in {f.right : f \in Referenced(o)} :
        \A f \in Referenced(o) : f.right <= r

\* the triangle of f at x, 0 outside its open support
Triangle(f, x) ==
    IF x <= f.left \/ x >= f.right THEN Zero
    ELSE IF x <= f.top THEN Rat(x - f.left, f.top - f.left)
    ELSE RatAdd(Rat(x - f.top, f.top - f.right), One)

\* the clipped triangles of the firing records of output o at x
Clipped(o, x) ==
    {LET t == Triangle(fzzSystem.outSet[o].fSet[infOut[o][k].fSet], x)
         v == infOut[o][k].value
     IN  IF RatLess(v, t) THEN v ELSE t : k \in 1 .. Len(infOut[o])}

Surface(o, x) ==
    CHOOSE m \in Clipped(o, x) \cup {Zero} :
        \A c \in Clipped(o, x) \cup {Zero} : RatLeq(c, m)

RECURSIVE SurfaceSum(_, _, _, _)
\* the sum over the sample points x, x + step, .. up to `to` of the surface
\* (weighted: of x times the surface)
SurfaceSum(o, x, to, weighted) ==
    IF x > to THEN Zero
    ELSE RatAdd(IF weighted THEN RatMul(RatInt(x), Surface(o, x)) ELSE Surface(o, x),
                SurfaceSum(o, x + COG_STEP, to, weighted))

\* C12: for an output with firing records and a surface that is not zero at
\* every sample point, the stored value is the sum of x * surface(x) divided
\* by the sum of surface(x) over the sample points from + k * step <= to,
\* from the least left and to the greatest right vertex among the fuzzy sets
\* of all its records.
C12_StoredIsCentroid ==
    Completed =>
        \A o \in Outputs :
           infOut[o] # <<>> =>
              LET num == SurfaceSum(o, LeastLeft(o), GreatestRight(o), TRUE)
                  den == SurfaceSum(o, LeastLeft(o), GreatestRight(o), FALSE)
              IN  den # Zero => fzzSystem.output[o] = Rat(num[1] * den[2], num[2] * den[1])

\* both rules have fired, the range 0 .. 12 comes from the two fuzzy sets
\* together, and a number is stored
C12_Witness ==
    /\ Completed
    /\ Len(infOut[0]) = 2
    /\ LeastLeft(0) = 0 /\ GreatestRight(0) = 12
    /\ fzzSystem.outSet[0].fSet[0].right = 5
    /\ fzzSystem.output[0] # NaN

\* C13: when the only firing record of an output has strength 1 (every
\* antecedent degree is 1) and its fuzzy set has left < top < right, the
\* stored output is a number strictly between left and right.
C13_ApexInsideSupport ==
    Completed =>
        \A o \in Outputs :
           (Len(infOut[o]) = 1 /\ infOut[o][1].value = One) =>
              LET f == fzzSystem.outSet[o].fSet[infOut[o][1].fSet]
                  y == fzzSystem.output[o]
              IN  (f.left < f.top /\ f.top < f.right) =>
                     /\ y[2] # 0
                     /\ RatLess(RatInt(f.left), y)
                     /\ RatLess(y, RatInt(f.right))

-----------------------------------------------------------------------------
(* SpecInverter: the sign inverter of fzz_test1 (src/fzzlib.c:785-820),     *)
(* built by the calls fzz_test1 makes, with inputs from -1 to 1.            *)

InverterSystem ==
    LET s0 == fzz_init(TFzzSystem0, 1, 1).sys
        s1 == fzz_initInputFcns(s0, 0, 3, "input").sys
        s2 == fzz_initOutputFcns(s1, 0, 3, "output").sys
        s3 == fzz_setInputFcn(s2, 0, 0, -200, -100, 0, "negative").sys
        s4 == fzz_setInputFcn(s3, 1, 0, -100, 0, 100, "zero").sys
        s5 == fzz_setInputFcn(s4, 2, 0, 0, 100, 200, "pozitive").sys
        s6 == fzz_setOutputFcn(s5, 0, 0, -200, -100, 0, "negative").sys
        s7 == fzz_setOutputFcn(s6, 1, 0, -100, 0, 100, "zero").sys
        s8 == fzz_setOutputFcn(s7, 2, 0, 0, 100, 200, "pozitive").sys
        s9 == fzz_addRule(s8, "if input is negative then output is pozitive").sys
        s10 == fzz_addRule(s9, "if input is zero then output is zero").sys
    IN  fzz_addRule(s10, "if input is pozitive then output is negative").sys

InverterValues == {-100, -75, -50, -25, 0, 25, 50, 75, 100}

InitInverter ==
    /\ fzzSystem = InverterSystem
    /\ fzfOut = fzfOut0
    /\ infOut = infOut0
    /\ status = "ok"
    /\ lastCall = Call("set", <<>>, FALSE, FALSE)
    /\ ruleLog = <<>>

NextInverter ==
    \/ \E v \in InverterValues : SetInput(0, v)
    \/ CalculateOutput
    \/ GetOutput(0)

SpecInverter == InitInverter /\ [][NextInverter]_vars

\* C14: in the sign inverter a completed fzz_calculateOutput stores a number
\* of the sign opposite to the input's: negative for a positive input,
\* positive for a negative one, and within one integration step of 0 for
\* input 0.
C14_OppositeSign ==
    Completed =>
        LET x == fzzSystem.input[0]
            y == fzzSystem.output[0]
        IN  /\ y[2] # 0
            /\ x > 0 => RatLess(y, Zero)
            /\ x < 0 => RatLess(Zero, y)
            /\ x = 0 => (RatLeq(RatInt(-COG_STEP), y) /\ RatLeq(y, RatInt(COG_STEP)))

\* input 0.5 has given a negative output
C14_Witness ==
    /\ Completed
    /\ fzzSystem.input[0] = 50
    /\ Len(infOut[0]) = 2
    /\ RatLess(fzzSystem.output[0], Zero)

-----------------------------------------------------------------------------
(* SpecLists: rule lists.  One input x with the fuzzy sets a and b, two     *)
(* outputs y and z with the fuzzy sets p and q each, built by the set-up    *)
(* calls as fzz_test2 (src/fzzlib.c:822-866) builds its system.  Rules are  *)
(* added to the empty list and to a list that already holds MAX_INFRES      *)
(* copies of one rule, the most firing records an output has room for.      *)

ListSystem ==
    LET s0 == fzz_init(TFzzSystem0, 1, 2).sys
        s1 == fzz_initInputFcns(s0, 0, 2, "x").sys
        s2 == fzz_initOutputFcns(s1, 0, 2, "y").sys
        s3 == fzz_initOutputFcns(s2, 1, 2, "z").sys
        s4 == fzz_setInputFcn(s3, 0, 0, -100, 0, 100, "a").sys
        s5 == fzz_setInputFcn(s4, 1, 0, 0, 100, 200, "b").sys
        s6 == fzz_setOutputFcn(s5, 0, 0, 0, 4, 8, "p").sys
        s7 == fzz_setOutputFcn(s6, 1, 0, 4, 8, 12, "q").sys
        s8 == fzz_setOutputFcn(s7, 0, 1, 0, 4, 8, "p").sys
    IN  fzz_setOutputFcn(s8, 1, 1, 4, 8, 12, "q").sys

RECURSIVE AddRuleTimes(_, _, _)
\* n calls of fzz_addRule with the same text
AddRuleTimes(sys, rule, n) ==
    IF n = 0 \/ sys.ruLen < 0 THEN sys ELSE AddRuleTimes(fzz_addRule(sys, rule).sys, rule, n - 1)

FullSystem == AddRuleTimes(ListSystem, "if x is a then y is p", MAX_INFRES)

MaxList == 3
MaxExtra == 1

ListTexts ==
    {"if x is a then y is p",
     "if x is b then y is q",
     "if x is b then z is q",
     "if x is c then y is p"}

ListValues == {0, 50, 150}

InitLists ==
    /\ fzzSystem \in {ListSystem, FullSystem}
    /\ fzfOut = fzfOut0
    /\ infOut = infOut0
    /\ status = "ok"
    /\ lastCall = Call("set", <<>>, FALSE, FALSE)
    /\ ruleLog = <<>>

NextLists ==
    \/ \E r \in ListTexts :
          /\ \/ fzzSystem.ruLen < MaxList
             \/ /\ fzzSystem.ruLen >= MAX_INFRES
                /\ fzzSystem.ruLen < MAX_INFRES + MaxExtra
          /\ AddRule(r)
    \/ \E v \in ListValues : SetInput(0, v)
    \/ GetOutput(0)
    \/ GetOutput(1)
    \/ CalculateOutput

SpecLists == InitLists /\ [][NextLists]_vars

-----------------------------------------------------------------------------
(* Properties of rule lists, checked under SpecLists *)

\* the rule texts of the list, each once
RuleSet == {fzzSystem.rule[k] : k \in 1 .. fzzSystem.ruLen}

\* the lists that hold every text of S once
Orderings(S) ==
    {p \in [1 .. Cardinality(S) -> S] :
        \A i, j \in 1 .. Cardinality(S) : i # j => p[i] # p[j]}

\* C15: the outputs depend on the set of stored rules only: when the list
\* that holds every stored rule once, in any order, is evaluated to the end,
\* the stored list is evaluated to the end as well and stores the same
\* output values.
C15_RuleSetDecides ==
    lastCall.name = "calculateOutput" =>
        \A p \in Orderings(RuleSet) :
           \A o \in fzz_calculateOutput(
                       [fzzSystem EXCEPT !.rule = p, !.ruLen = Cardinality(RuleSet)],
                       fzfOut, infOut) :
              o.st = "ok" => (status = "ok" /\ fzzSystem.output = o.sys.output)

-----------------------------------------------------------------------------
(* SpecIndex: the calls that take an index, made with indexes and lengths   *)
(* inside and outside their ranges on a system of one input and one output  *)
(* of two fuzzy sets each.                                                  *)

IndexSystem ==
    LET s0 == fzz_init(TFzzSystem0, 1, 1).sys
        s1 == fzz_initInputFcns(s0, 0, 2, "x").sys
    IN  fzz_initOutputFcns(s1, 0, 2, "y").sys

IndexArgs == {-1, 0, 1, 2}
LengthArgs == {-1, 2}

InitIndex ==
    /\ fzzSystem = IndexSystem
    /\ fzfOut = fzfOut0
    /\ infOut = infOut0
    /\ status = "ok"
    /\ lastCall = Call("set", <<>>, FALSE, FALSE)
    /\ ruleLog = <<>>

NextIndex ==
    \/ \E i \in IndexArgs, n \in LengthArgs : InitInputFcns(i, n, "x")
    \/ \E i \in IndexArgs, n \in LengthArgs : InitOutputFcns(i, n, "y")
    \/ \E i \in IndexArgs, v \in IndexArgs : SetInputFcn(i, v, -100, 0, 100, "a")
    \/ \E i \in IndexArgs, v \in IndexArgs : SetOutputFcn(i, v, 0, 4, 8, "p")
    \/ \E i \in IndexArgs : SetInput(i, 50)
    \/ \E i \in IndexArgs : GetOutput(i)

SpecIndex == InitIndex /\ [][NextIndex]_vars

InRange(i, count) == 0 <= i /\ i < count

\* the call has failed and has left the system as it was
Failed == status' = "aborted" /\ fzzSystem' = fzzSystem

\* C16: each call that takes an index fails, and changes nothing of the
\* system, when an index is outside [0, count) or a length is negative.
C16_BadIndexFails ==
    [][\A i \in IndexArgs :
          /\ (SetInput(i, 50) /\ ~InRange(i, fzzSystem.inLen)) => Failed
          /\ (GetOutput(i) /\ ~InRange(i, fzzSystem.outLen)) => Failed
          /\ \A n \in LengthArgs :
                /\ (InitInputFcns(i, n, "x") /\ (~InRange(i, fzzSystem.inLen) \/ n < 0))
                      => Failed
                /\ (InitOutputFcns(i, n, "y") /\ (~InRange(i, fzzSystem.outLen) \/ n < 0))
                      => Failed
          /\ \A v \in IndexArgs :
                /\ (/\ SetInputFcn(i, v, -100, 0, 100, "a")
                    /\ ~(/\ InRange(v, fzzSystem.inLen)
                         /\ InRange(i, fzzSystem.inSet[v].length)))
                      => Failed
                /\ (/\ SetOutputFcn(i, v, 0, 4, 8, "p")
                    /\ ~(/\ InRange(v, fzzSystem.outLen)
                         /\ InRange(i, fzzSystem.outSet[v].length)))
                      => Failed]_vars

-----------------------------------------------------------------------------
(* fzz_init in mid-life (Spec) *)

\* what a fzz_calculateOutput made now can end with: the status and the
\* stored outputs, read from the system and from the two working buffers
Results(sys, fzf, inf) ==
    { <<o.st, o.sys.output>> : o \in fzz_calculateOutput(sys, fzf, inf) }

\* the system is as fzz_init leaves the zero-initialised global
Emptied(inputs, outputs) ==
    /\ fzzSystem.ruLen = 0
    /\ fzzSystem.rule = <<>>
    /\ \A i \in 0 .. MAX_INPUTS - 1 :
          /\ fzzSystem.inSet[i].length = 0
          /\ fzzSystem.inSet[i].name = ""
          /\ fzzSystem.input[i] = 0
    /\ \A i \in 0 .. MAX_OUTPUTS - 1 :
          /\ fzzSystem.outSet[i].length = 0
          /\ fzzSystem.outSet[i].name = ""
          /\ fzzSystem.output[i] = Zero
    /\ fzzSystem = fzz_init(TFzzSystem0, inputs, outputs).sys

\* C17: fzz_init, whenever it is called, leaves no rule, no fuzzy set, no
\* name and only zero values, the system being the one a first fzz_init
\* gives; and in every state in which a call is made, what
\* fzz_calculateOutput would compute does not depend on what the working
\* buffers hold from earlier calls.
C17_InitResets ==
    [][/\ \A a \in InitArgs :
             InitSystem(a[1], a[2]) => (status' = "ok" /\ Emptied(a[1], a[2])')
       /\ Results(fzzSystem, fzfOut, infOut) = Results(fzzSystem, fzfOut0, infOut0)]_vars

\* fzz_init has returned in a system that had been configured and evaluated
C17_Witness ==
    /\ \E a \in InitArgs : Emptied(a[1], a[2])
    /\ status = "ok"
    /\ lastCall.name = "set"
    /\ infOut[0] # <<>>
    /\ fzfOut[0] # <<>>

-----------------------------------------------------------------------------
(* A rule that fails during fzz_calculateOutput (SpecLists) *)

\* the record of the latest fzz_calculateOutput holds a rule whose parsing
\* or name resolution failed
RuleFailed(log) == \E k \in 1 .. Len(log) : log[k].res = "abort"

\* C18: when a rule fails to parse or to resolve during
\* fzz_calculateOutput, the call ends at that rule with the process
\* aborted, no later rule is evaluated and every stored output keeps the
\* value it had before the call.
C18_FailureAbortsAll ==
    [][(lastCall'.name = "calculateOutput" /\ RuleFailed(ruleLog'))
          => /\ status' = "aborted"
             /\ ruleLog'[Len(ruleLog')].res = "abort"
             /\ \A k \in 1 .. Len(ruleLog') - 1 : ruleLog'[k].res = "ok"
             /\ fzzSystem'.output = fzzSystem.output
             /\ fzzSystem' = fzzSystem]_vars

\* the second of three rules has failed after the first one fired, the
\* third being a valid rule of the other output, and the output of the
\* first still holds the value of an earlier evaluation
C18_Witness ==
    /\ lastCall.name = "calculateOutput"
    /\ status = "aborted"
    /\ fzzSystem.ruLen = 3
    /\ Len(ruleLog) = 2
    /\ ruleLog[1].fired /\ ruleLog[1].output = 0
    /\ ruleLog[2].res = "abort"
    /\ fzzSystem.rule[3] = "if x is b then z is q"
    /\ fzzSystem.output[0] # Zero
    /\ fzzSystem.output[0] # NaN

-----------------------------------------------------------------------------
(* What each call leaves alone (Spec) *)

\* the step is a call that sets an input, a rule, a variable or a fuzzy set
SetUpCall ==
    \/ \E a \in VarArgs : InitInputFcns(a[1], a[2], "x")
    \/ \E a \in VarArgs : InitOutputFcns(a[1], a[2], "y")
    \/ \E t \in InTerms : SetInputFcn(t[1], t[2], t[3], t[4], t[5], t[6])
    \/ \E t \in OutTerms : SetOutputFcn(t[1], t[2], t[3], t[4], t[5], t[6])
    \/ \E r \in Rules : AddRule(r)
    \/ \E v \in InputValues : SetInput(0, v)

\* C19: fzz_getOutput of an output in range returns the stored output and
\* changes nothing; the stored outputs are 0 after fzz_init and are changed
\* by no call that sets an input, a rule, a variable or a fuzzy set;
\* fzz_calculateOutput changes nothing of the system but the stored outputs.
C19_Frames ==
    [][/\ SetUpCall => fzzSystem'.output = fzzSystem.output
       /\ (\E a \in InitArgs : InitSystem(a[1], a[2]))
             => \A i \in 0 .. MAX_OUTPUTS - 1 : fzzSystem'.output[i] = Zero
       /\ (GetOutput(0) /\ InRange(0, fzzSystem.outLen))
             => /\ lastCall'.ret = fzzSystem.output[0]
                /\ status' = "ok"
                /\ fzzSystem' = fzzSystem
       /\ lastCall'.name = "calculateOutput"
             => /\ fzzSystem' = [fzzSystem EXCEPT !.output = fzzSystem'.output]
                /\ fzzSystem'.input = fzzSystem.input
                /\ fzzSystem'.inSet = fzzSystem.inSet
                /\ fzzSystem'.outSet = fzzSystem.outSet
                /\ fzzSystem'.rule = fzzSystem.rule
                /\ fzzSystem'.ruLen = fzzSystem.ruLen
                /\ fzzSystem'.inLen = fzzSystem.inLen
                /\ fzzSystem'.outLen = fzzSystem.outLen]_vars

\* fzz_getOutput has returned a computed value after an evaluation that was
\* followed by calls that set something
C19_Witness ==
    /\ lastCall.name = "getOutput"
    /\ status = "ok"
    /\ ~lastCall.cycle
    /\ lastCall.ret = fzzSystem.output[0]
    /\ lastCall.ret # Zero
    /\ lastCall.ret # NaN

-----------------------------------------------------------------------------
(* SpecRename: a system with two rules whose variables and fuzzy sets are   *)
(* given other names and other lengths between the evaluations.             *)

RenameSystem ==
    LET s0 == fzz_init(TFzzSystem0, 1, 1).sys
        s1 == fzz_initInputFcns(s0, 0, 2, "x").sys
        s2 == fzz_initOutputFcns(s1, 0, 2, "y").sys
        s3 == fzz_setInputFcn(s2, 0, 0, -100, 0, 100, "a").sys
        s4 == fzz_setInputFcn(s3, 1, 0, 0, 100, 200, "b").sys
        s5 == fzz_setOutputFcn(s4, 0, 0, 0, 4, 8, "p").sys
        s6 == fzz_setOutputFcn(s5, 1, 0, 4, 8, 12, "q").sys
        s7 == fzz_addRule(s6, "if x is a then y is p").sys
    IN  fzz_addRule(s7, "if x is b then y is q").sys

RenameLengths == {1, 2}
RenameInTerms ==
    {<<0, 0, -100, 0, 100, "a">>, <<0, 0, -100, 0, 100, "c">>,
     <<1, 0, 0, 100, 200, "b">>, <<1, 0, 0, 100, 200, "a">>}
RenameOutTerms ==
    {<<0, 0, 0, 4, 8, "p">>, <<0, 0, 0, 4, 8, "r">>, <<1, 0, 4, 8, 12, "q">>}
RenameValues == {0, 50}

InitRename ==
    /\ fzzSystem = RenameSystem
    /\ fzfOut = fzfOut0
    /\ infOut = infOut0
    /\ status = "ok"
    /\ lastCall = Call("set", <<>>, FALSE, FALSE)
    /\ ruleLog = <<>>

NextRename ==
    \/ \E n \in RenameLengths, name \in {"x", "u"} : InitInputFcns(0, n, name)
    \/ \E n \in RenameLengths, name \in {"y", "w"} : InitOutputFcns(0, n, name)
    \/ \E t \in RenameInTerms : SetInputFcn(t[1], t[2], t[3], t[4], t[5], t[6])
    \/ \E t \in RenameOutTerms : SetOutputFcn(t[1], t[2], t[3], t[4], t[5], t[6])
    \/ \E v \in RenameValues : SetInput(0, v)
    \/ GetOutput(0)
    \/ CalculateOutput

SpecRename == InitRename /\ [][NextRename]_vars

\* a stored rule names a variable or a fuzzy set that the configuration of
\* this moment does not hold
Unresolved == \E k \in 1 .. fzzSystem.ruLen : NameMismatch(fzzSystem.rule[k])

\* C20: an evaluation fails exactly when a stored rule names a variable or
\* a fuzzy set that does not exist when the evaluation is made, whatever the
\* rule resolved to in an earlier evaluation.
C20_ResolvedAtEvaluation ==
    lastCall.name = "calculateOutput" => (Unresolved <=> status = "aborted")

\* an evaluation has failed on a system whose stored output was computed by
\* an earlier evaluation of the same rules
C20_Witness ==
    /\ lastCall.name = "calculateOutput"
    /\ status = "aborted"
    /\ Unresolved
    /\ fzzSystem.output[0] # Zero
    /\ fzzSystem.output[0] # NaN

-----------------------------------------------------------------------------
(* SpecSurface: three rules of which two name the same fuzzy set of the     *)
(* output, so that one fuzzy set gets two firing records of different       *)
(* values; the two fuzzy sets of the output take every shape over a grid,   *)
(* the shapes with top = left and top = right included.                     *)

SurfaceSystem ==
    LET s0 == fzz_init(TFzzSystem0, 1, 1).sys
        s1 == fzz_initInputFcns(s0, 0, 2, "x").sys
        s2 == fzz_initOutputFcns(s1, 0, 2, "y").sys
        s3 == fzz_setInputFcn(s2, 0, 0, -100, 0, 100, "a").sys
        s4 == fzz_setInputFcn(s3, 1, 0, 0, 100, 200, "b").sys
        s5 == fzz_setOutputFcn(s4, 0, 0, 0, 4, 8, "p").sys
        s6 == fzz_setOutputFcn(s5, 1, 0, 4, 8, 12, "q").sys
        s7 == fzz_addRule(s6, "if x is a then y is p").sys
        s8 == fzz_addRule(s7, "if x is b then y is p").sys
    IN  fzz_addRule(s8, "if x is b then y is q").sys

SurfaceGrid == {0, 3, 8}
SurfaceTriangles ==
    {t \in SurfaceGrid \X SurfaceGrid \X SurfaceGrid : t[1] <= t[2] /\ t[2] <= t[3]}
SurfaceValues == {0, 25, 100}

InitSurface ==
    /\ fzzSystem = SurfaceSystem
    /\ fzfOut = fzfOut0
    /\ infOut = infOut0
    /\ status = "ok"
    /\ lastCall = Call("set", <<>>, FALSE, FALSE)
    /\ ruleLog = <<>>

NextSurface ==
    \/ \E t \in SurfaceTriangles : SetOutputFcn(0, 0, t[1], t[2], t[3], "p")
    \/ \E t \in SurfaceTriangles : SetOutputFcn(1, 0, t[1], t[2], t[3], "q")
    \/ \E v \in SurfaceValues : SetInput(0, v)
    \/ CalculateOutput

SpecSurface == InitSurface /\ [][NextSurface]_vars

\* the points at which the surface is compared: every hundredth around the
\* grid, the sample points of the integration among them
SurfacePoints == -2 .. 10

\* C21: after an evaluation the value of fzz_outputValue at every point x is
\* the greatest, over the firing records of the output, of the lesser of the
\* record's value and the degree of x in the record's fuzzy set, and 0 when
\* x is strictly inside the support of no record's fuzzy set.
C21_SurfaceIsMaxOfMin ==
    Completed =>
        \A o \in 0 .. fzzSystem.outLen - 1 : \A x \in SurfacePoints :
           /\ fzz_outputValue(fzzSystem, infOut, o, x) = Surface(o, x)
           /\ (\A f \in Referenced(o) : x <= f.left \/ x >= f.right)
                 => fzz_outputValue(fzzSystem, infOut, o, x) = Zero

\* one fuzzy set has two firing records of different values and the
\* surface at a point inside it is the greater of the two
C21_Witness ==
    /\ Completed
    /\ Len(infOut[0]) = 3
    /\ infOut[0][1].fSet = infOut[0][2].fSet
    /\ RatLess(infOut[0][2].value, infOut[0][1].value)
    /\ \E x \in SurfacePoints :
          /\ fzz_outputValue(fzzSystem, infOut, 0, x) = infOut[0][1].value
          /\ RatLess(Zero, infOut[0][2].value)

-----------------------------------------------------------------------------
(* SpecDegenerate: one rule over an input fuzzy set and an output fuzzy set *)
(* that take every shape left <= top <= right over a grid, the shapes with  *)
(* top = left and top = right included.                                     *)

DegenerateSystem ==
    LET s0 == fzz_init(TFzzSystem0, 1, 1).sys
        s1 == fzz_initInputFcns(s0, 0, 1, "x").sys
        s2 == fzz_initOutputFcns(s1, 0, 1, "y").sys
        s3 == fzz_setInputFcn(s2, 0, 0, -100, 0, 100, "a").sys
        s4 == fzz_setOutputFcn(s3, 0, 0, 0, 4, 8, "p").sys
    IN  fzz_addRule(s4, "if x is a then y is p").sys

DegenerateInGrid == {0, 50, 100}
DegenerateOutGrid == {0, 3, 8}
DegenerateValues == {0, 25, 50, 75, 100}

InitDegenerate ==
    /\ fzzSystem = DegenerateSystem
    /\ fzfOut = fzfOut0
    /\ infOut = infOut0
    /\ status = "ok"
    /\ lastCall = Call("set", <<>>, FALSE, FALSE)
    /\ ruleLog = <<>>

NextDegenerate ==
    \/ \E t \in DegenerateInGrid \X DegenerateInGrid \X DegenerateInGrid :
          t[1] <= t[2] /\ t[2] <= t[3] /\ SetInputFcn(0, 0, t[1], t[2], t[3], "a")
    \/ \E t \in DegenerateOutGrid \X DegenerateOutGrid \X DegenerateOutGrid :
          t[1] <= t[2] /\ t[2] <= t[3] /\ SetOutputFcn(0, 0, t[1], t[2], t[3], "p")
    \/ \E v \in DegenerateValues : SetInput(0, v)
    \/ CalculateOutput

SpecDegenerate == InitDegenerate /\ [][NextDegenerate]_vars

\* the values at which a membership is looked at: the inputs, and every
\* hundredth around the output grid
DegeneratePoints == DegenerateValues \cup (-2 .. 10)

\* the fuzzy sets in use
StoredFSets ==
    {fzzSystem.inSet[i].fSet[j] :
        i \in 0 .. fzzSystem.inLen - 1, j \in 0 .. MAX_FSETS - 1}
    \cup {fzzSystem.outSet[i].fSet[j] :
        i \in 0 .. fzzSystem.outLen - 1, j \in 0 .. MAX_FSETS - 1}

\* the fuzzy set has a vertical edge
Degenerate(f) == f.left < f.right /\ (f.top = f.left \/ f.top = f.right)

\* the degree as the quotient over the divisor of the branch taken
DegreeOver(f, x) ==
    IF x <= f.top THEN Rat(x - f.left, MembershipDivisor(f, x))
    ELSE RatAdd(Rat(x - f.top, MembershipDivisor(f, x)), One)

\* C22 as stated: a fuzzy set with top = left or top = right has a value x
\* whose membership evaluation divides by zero.
C22_DegenerateDividesByZero ==
    \A f \in StoredFSets :
       Degenerate(f) =>
          \E x \in DegeneratePoints : Intersects(f, x) /\ MembershipDivisor(f, x) = 0

\* C22 as amended: no membership evaluation divides by zero, also for a
\* fuzzy set with top = left or top = right: a division is made only for x
\* strictly inside (left, right), its divisor is top - left for x <= top and
\* top - right otherwise, neither is 0 there, and the degree stored by
\* fuzzification and the surface value of a single record are the quotients
\* over that divisor.
C22_NoDivisionByZero ==
    /\ \A f \in StoredFSets : \A x \in DegeneratePoints :
          Intersects(f, x) => MembershipDivisor(f, x) # 0
    /\ lastCall.name = "calculateOutput" =>
          /\ \A k \in 1 .. Len(fzfOut[0]) :
                LET f == fzzSystem.inSet[0].fSet[fzfOut[0][k].setIndex]
                    x == fzzSystem.input[0]
                IN  /\ Intersects(f, x)
                    /\ MembershipDivisor(f, x) # 0
                    /\ fzfOut[0][k].membership = DegreeOver(f, x)
          /\ Len(infOut[0]) = 1 =>
                \A x \in DegeneratePoints :
                   LET f == fzzSystem.outSet[0].fSet[infOut[0][1].fSet]
                   IN  Intersects(f, x) =>
                          fzz_outputValue(fzzSystem, infOut, 0, x)
                             = RatMin(DegreeOver(f, x), infOut[0][1].value)

\* an evaluation has computed a degree and a surface on fuzzy sets that
\* both have a vertical edge
C22_Witness ==
    /\ lastCall.name = "calculateOutput"
    /\ Degenerate(fzzSystem.inSet[0].fSet[0])
    /\ Degenerate(fzzSystem.outSet[0].fSet[0])
    /\ Len(fzfOut[0]) = 1
    /\ Len(infOut[0]) = 1
    /\ \E x \in DegeneratePoints :
          RatLess(Zero, fzz_outputValue(fzzSystem, infOut, 0, x))

-----------------------------------------------------------------------------
(* SpecTerms: the vertices of a fuzzy set of an input and of the output     *)
(* given in every order, also with top outside [left, right] and with left  *)
(* above right, as fzz_setInputFcn and fzz_setOutputFcn take them.          *)

TermSystem ==
    LET s0 == fzz_init(TFzzSystem0, 2, 1).sys
        s1 == fzz_initInputFcns(s0, 0, 1, "x").sys
        s2 == fzz_initInputFcns(s1, 1, 1, "v").sys
        s3 == fzz_initOutputFcns(s2, 0, 1, "y").sys
        s4 == fzz_setInputFcn(s3, 0, 0, 0, 50, 100, "a").sys
        s5 == fzz_setInputFcn(s4, 0, 1, 0, 100, 200, "b").sys
        s6 == fzz_setOutputFcn(s5, 0, 0, 0, 4, 8, "p").sys
        s7 == fzz_setInput(s6, 1, 10).sys
        s8 == fzz_addRule(s7, "if x is a then y is p").sys
    IN  fzz_addRule(s8, "if x is a and v is b then y is p").sys

TermGrid == {0, 50, 100}
TermOutTriples == {<<0, 4, 8>>, <<8, 4, 0>>, <<4, 0, 8>>, <<0, 8, 4>>}
TermValues == {10, 25, 50, 75, 90}

InitTerms ==
    /\ fzzSystem = TermSystem
    /\ fzfOut = fzfOut0
    /\ infOut = infOut0
    /\ status = "ok"
    /\ lastCall = Call("set", <<>>, FALSE, FALSE)
    /\ ruleLog = <<>>

NextTerms ==
    \/ \E t \in TermGrid \X TermGrid \X TermGrid :
          SetInputFcn(0, 0, t[1], t[2], t[3], "a")
    \/ \E t \in TermOutTriples : SetOutputFcn(0, 0, t[1], t[2], t[3], "p")
    \/ \E v \in TermValues : SetInput(0, v)
    \/ CalculateOutput

SpecTerms == InitTerms /\ [][NextTerms]_vars

\* d is a number from 0 to 1
UnitDegree(d) == d[2] # 0 /\ RatLeq(Zero, d) /\ RatLeq(d, One)

\* C23: after every evaluation, whatever vertices the fuzzy sets were
\* given, every degree in a fuzzification result and every value in an
\* inference result is a number from 0 to 1.
C23_DegreesInUnitInterval ==
    lastCall.name = "calculateOutput" =>
        /\ \A i \in 0 .. fzzSystem.inLen - 1 : \A k \in 1 .. Len(fzfOut[i]) :
              UnitDegree(fzfOut[i][k].membership)
        /\ \A o \in 0 .. fzzSystem.outLen - 1 : \A k \in 1 .. Len(infOut[o]) :
              UnitDegree(infOut[o][k].value)

\* an evaluation has stored a degree and two firing records for a fuzzy
\* set whose top is outside [left, right]
C23_Witness ==
    /\ Completed
    /\ LET f == fzzSystem.inSet[0].fSet[0]
       IN  f.top < f.left \/ f.top > f.right
    /\ Len(fzfOut[0]) = 1
    /\ Len(infOut[0]) = 2
    /\ infOut[0][1].value # infOut[0][2].value

-----------------------------------------------------------------------------
(* SpecSetUp: the calls that configure a system, made in any order, the     *)
(* vertices of a fuzzy set being given in any order.                        *)

SetUpLengths == {1, 2}
SetUpTriples == {<<0, 1, 2>>, <<0, 0, 2>>, <<2, 1, 0>>, <<0, 2, 1>>}

InitSetUp ==
    /\ fzzSystem = TFzzSystem0
    /\ fzfOut = fzfOut0
    /\ infOut = infOut0
    /\ status = "ok"
    /\ lastCall = Call("none", <<>>, FALSE, FALSE)
    /\ ruleLog = <<>>

NextSetUp ==
    \/ InitSystem(1, 1)
    \/ \E n \in SetUpLengths : InitInputFcns(0, n, "x")
    \/ \E n \in SetUpLengths : InitOutputFcns(0, n, "y")
    \/ \E i \in {0, 1}, t \in SetUpTriples : SetInputFcn(i, 0, t[1], t[2], t[3], "a")
    \/ \E i \in {0, 1}, t \in SetUpTriples : SetOutputFcn(i, 0, t[1], t[2], t[3], "p")

SpecSetUp == InitSetUp /\ [][NextSetUp]_vars

\* C24: every stored fuzzy set of every input and output has
\* left <= top <= right.
C24_VerticesOrdered ==
    \A f \in StoredFSets : f.left <= f.top /\ f.top <= f.right

-----------------------------------------------------------------------------
(* SpecText: rule texts shorter than, as long as and longer than            *)
(* RULE_LENGTH added to a system whose names make such texts sentences of   *)
(* the grammar.  The output has the fuzzy sets very_fast and very_fast2:    *)
(* LongerText is FullText with one more character and names the second.     *)

TextSystem ==
    LET s0 == fzz_init(TFzzSystem0, 1, 1).sys
        s1 == fzz_initInputFcns(s0, 0, 1, "temperature_now").sys
        s2 == fzz_initOutputFcns(s1, 0, 2, "fan_speed").sys
        s3 == fzz_setInputFcn(s2, 0, 0, -100, 0, 100, "moderately").sys
        s4 == fzz_setOutputFcn(s3, 0, 0, 0, 4, 8, "very_fast").sys
    IN  fzz_setOutputFcn(s4, 1, 0, 4, 8, 12, "very_fast2").sys

ShortText == "if temperature_now is moderately then fan_speed is very_fast"
FullText ==
    "if temperature_now is moderately and temperature_now is moderately and temperature_now is moderately then fan_speed is very_fast"
LongerText == FullText \o "2"

MaxTexts == 2
TextValues == {0, 50}

InitText ==
    /\ fzzSystem = TextSystem
    /\ fzfOut = fzfOut0
    /\ infOut = infOut0
    /\ status = "ok"
    /\ lastCall = Call("set", <<>>, FALSE, FALSE)
    /\ ruleLog = <<>>

NextText ==
    \/ \E r \in {ShortText, FullText, LongerText} :
          fzzSystem.ruLen < MaxTexts /\ AddRule(r)
    \/ \E v \in TextValues : SetInput(0, v)
    \/ GetOutput(0)
    \/ CalculateOutput

SpecText == InitText /\ [][NextText]_vars

\* C25: after fzz_addRule(r) the text read for the new rule is r, character
\* for character, the texts read for the rules added before are what they
\* were, and fzz_calculateOutput parses these texts in the order of the
\* calls.
C25_TextKept ==
    [][/\ \A r \in {ShortText, FullText, LongerText} :
             (AddRule(r) /\ status' = "ok")
                => /\ fzzSystem'.ruLen = fzzSystem.ruLen + 1
                   /\ RuleString(fzzSystem', fzzSystem.ruLen) = r
                   /\ \A i \in 0 .. fzzSystem.ruLen - 1 :
                         RuleString(fzzSystem', i) = RuleString(fzzSystem, i)
       /\ lastCall'.name = "calculateOutput"
             => \A k \in 1 .. Len(ruleLog') :
                   ruleLog'[k].text = RuleString(fzzSystem, k - 1)]_vars

-----------------------------------------------------------------------------
(* SpecTokens: rule texts with tokens of 15, of 16 and of more characters,  *)
(* in the middle of the text and at its end, added to TextSystem.           *)

TokenTexts ==
    {ShortText,
     "if temperature_now2 is moderately then fan_speed is very_fast",
     "if temperature_now is moderately then fan_speed is very_fast_indeed",
     "if temperature_now is moderately_warm_and_humid then fan_speed is very_fast"}

MaxTokenRules == 2

NextTokens ==
    \/ \E r \in TokenTexts : fzzSystem.ruLen < MaxTokenRules /\ AddRule(r)
    \/ \E v \in TextValues : SetInput(0, v)
    \/ GetOutput(0)
    \/ CalculateOutput

SpecTokens == InitText /\ [][NextTokens]_vars

\* C26: for every rule parsed by an evaluation, the index at which a
\* character or a terminator is written to the token buffer is below
\* WBUF_LENGTH: the parse of the text stops with fewer than WBUF_LENGTH
\* characters in the buffer, the terminator still to be written.
C26_WriteIndexBelowCapacity ==
    lastCall.name = "calculateOutput" =>
        \A k \in 1 .. Len(ruleLog) :
           Len(ParseFrom(fzzSystem, ruleLog[k].text, Parse0).wbuf) < WBUF_LENGTH

-----------------------------------------------------------------------------
(* The record table of an output (SpecLists) *)

\* the record e of a rule tells of a firing record written past the table:
\* the rule parsed, matched, and found the table of its output full
PastEnd(e) ==
    /\ e.res = "ub"
    /\ ParseRule(fzzSystem, e.text).res = "ok"
    /\ e.match = e.inLen

\* C27: after every evaluation each output has at most MAX_INFRES firing
\* records and no rule has written a record past the table of its output.
C27_RecordsWithinTable ==
    lastCall.name = "calculateOutput" =>
        /\ \A o \in 0 .. fzzSystem.outLen - 1 : Len(infOut[o]) <= MAX_INFRES
        /\ \A k \in 1 .. Len(ruleLog) : ~PastEnd(ruleLog[k])

-----------------------------------------------------------------------------
(* Rules of several outputs in one list (SpecLists) *)

\* the consequent variable named by a rule text
ConsequentOf(text) == LET toks == Tokens(text) IN toks[Len(toks) - 2]

\* the stored rules whose consequent variable is output o, in list order
RulesFor(o) ==
    SelectSeq(fzzSystem.rule,
              LAMBDA t : ConsequentOf(t) = fzzSystem.outSet[o].name)

\* every stored rule is a valid rule of output o or of another output
OthersValid(o) ==
    \A k \in 1 .. fzzSystem.ruLen :
       \/ WellFormed(fzzSystem.rule[k])
       \/ ConsequentOf(fzzSystem.rule[k]) = fzzSystem.outSet[o].name

\* C28: the value of output o is the one the list of the rules of o alone
\* gives: when the other stored rules are valid rules and the rules of o
\* alone are evaluated to the end, the stored list is evaluated to the end
\* too and stores the same value for o.
C28_OutputIndependent ==
    lastCall.name = "calculateOutput" =>
        \A o \in 0 .. fzzSystem.outLen - 1 :
           OthersValid(o) =>
              \A r \in fzz_calculateOutput(
                          [fzzSystem EXCEPT !.rule = RulesFor(o), !.ruLen = Len(RulesFor(o))],
                          fzfOut, infOut) :
                 r.st = "ok" => (status = "ok" /\ fzzSystem.output[o] = r.sys.output[o])

-----------------------------------------------------------------------------
(* The stored value and the range of the referenced fuzzy sets              *)
(* (SpecDefuzzify)                                                          *)

\* C29: a number stored for an output with firing records lies strictly
\* between the least left vertex and the greatest right vertex of the fuzzy
\* sets its records name.
C29_StoredInsideRange ==
    Completed =>
        \A o \in Outputs :
           (infOut[o] # <<>> /\ fzzSystem.output[o] # NaN) =>
              /\ RatLess(RatInt(LeastLeft(o)), fzzSystem.output[o])
              /\ RatLess(fzzSystem.output[o], RatInt(GreatestRight(o)))

\* both rules have fired and the number stored lies beyond the right vertex
\* of p, inside the range the two fuzzy sets span together
C29_Witness ==
    /\ Completed
    /\ Len(infOut[0]) = 2
    /\ fzzSystem.output[0] # NaN
    /\ RatLess(RatInt(fzzSystem.outSet[0].fSet[0].right), fzzSystem.output[0])
    /\ RatLess(fzzSystem.output[0], RatInt(GreatestRight(0)))

-----------------------------------------------------------------------------
(* The variant of the library that allocates its tables                     *)
(* (src/fzzlib.c:1213-1431).  A block of malloc is [size, cell, past]: cell *)
(* holds the elements 0 .. size - 1, whose contents are indeterminate until *)
(* stored to (one stale value per block here), and past holds the indexes   *)
(* at or beyond size that were stored to, which is undefined behaviour.     *)
(* SpecHeap calls fzz_init of this variant with every pair of counts up to  *)
(* MaxCount.                                                                *)

HEAP_MAX_RULES == 32

MaxCount == 8

\* a TFcnsSet as the loops of fzz_init leave it
ResetSlot == [fSet |-> "NULL", length |-> 0, name |-> ""]

\* what a TFcnsSet of a fresh block may hold
StaleSlots ==
    {ResetSlot,
     [fSet |-> "stale", length |-> 3, name |-> "y"],
     [fSet |-> "NULL", length |-> 1, name |-> ""]}

\* what a double of a fresh block may hold
StaleDoubles == {Zero, RatInt(7)}

\* malloc(n * sizeof ..) of a block whose elements all hold `stale`
malloc(n, stale) == [size |-> n, cell |-> [k \in 0 .. n - 1 |-> stale], past |-> {}]

\* block[i] = v
store(block, i, v) ==
    IF i \in 0 .. block.size - 1
    THEN [size |-> block.size,
          cell |-> [k \in 0 .. block.size - 1 |-> IF k = i THEN v ELSE block.cell[k]],
          past |-> block.past]
    ELSE [size |-> block.size, cell |-> block.cell, past |-> block.past \cup {i}]

RECURSIVE storeFrom(_, _, _, _)
\* for(; i < n; i++) block[i] = v
storeFrom(block, i, n, v) ==
    IF ~(i < n) THEN block
    ELSE storeFrom(store(block, i, v), i + 1, n, v)

\* the global fzzSystem of this variant before any call
TFzzSystemHeap0 ==
    [inLen |-> 0, outLen |-> 0,
     inSet |-> malloc(0, ResetSlot), outSet |-> malloc(0, ResetSlot),
     input |-> malloc(0, Zero), output |-> malloc(0, Zero),
     ruLen |-> 0,
     rule |-> [i \in 0 .. HEAP_MAX_RULES - 1 |-> "NULL"]]

\* fzz_init of this variant, src/fzzlib.c:1283-1319; fresh holds what the
\* four blocks hold as malloc returns them
fzz_init_heap(inputs, outputs, fresh) ==
    LET inSet == storeFrom(malloc(inputs, fresh.inSet), 0, inputs, ResetSlot)
        outSet == storeFrom(malloc(outputs, fresh.outSet), 0, inputs, ResetSlot)
        input == storeFrom(malloc(inputs, fresh.input), 0, inputs, Zero)
        output == storeFrom(malloc(outputs, fresh.output), 0, outputs, Zero)
    IN  [st |-> IF inSet.past \cup outSet.past \cup input.past \cup output.past = {}
                THEN "ok" ELSE "ub",
         sys |-> [inLen |-> inputs, outLen |-> outputs,
                  inSet |-> inSet, outSet |-> outSet,
                  input |-> input, output |-> output,
                  ruLen |-> 0,
                  rule |-> [i \in 0 .. HEAP_MAX_RULES - 1 |-> "NULL"]]]

\* what the four fresh blocks may hold
FreshBlocks ==
    [inSet : StaleSlots, outSet : StaleSlots, input : StaleDoubles, output : StaleDoubles]

HeapInit(inputs, outputs) ==
    \E fresh \in FreshBlocks :
       LET r == fzz_init_heap(inputs, outputs, fresh)
       IN  /\ fzzSystem' = r.sys
           /\ status' = r.st
           /\ lastCall' = Call("init", <<inputs, outputs>>, FALSE, FALSE)
           /\ UNCHANGED <<fzfOut, infOut, ruleLog>>

InitHeap ==
    /\ fzzSystem = TFzzSystemHeap0
    /\ fzfOut = fzfOut0
    /\ infOut = infOut0
    /\ status = "ok"
    /\ lastCall = Call("none", <<>>, FALSE, FALSE)
    /\ ruleLog = <<>>

NextHeap == \E inputs \in 0 .. MaxCount, outputs \in 0 .. MaxCount : HeapInit(inputs, outputs)

SpecHeap == InitHeap /\ [][NextHeap]_vars

\* C30: after fzz_init(inputs, outputs) of this variant every output slot
\* 0 .. outputs - 1 is reset (no fuzzy sets, length 0, empty name) and no
\* slot at an index >= outputs has been stored to.
C30_ResetsExactlyOutputSlots ==
    lastCall.name = "init" =>
        /\ \A i \in 0 .. fzzSystem.outLen - 1 : fzzSystem.outSet.cell[i] = ResetSlot
        /\ fzzSystem.outSet.past = {}

====
